---------------------------- MODULE Spec2Model ----------------------------
(***************************************************************************)
(* Scheduler core of vvtest: TestExecList / TestBacklog / TestConstraint   *)
(* (vvt/libvvtest/execlist.py) driven against a Platform processor pool.   *)
(* Tests are identified by their position in the test list (the TestSpec   *)
(* ID); their parameters, runtime estimate, skip flag and dependencies     *)
(* are fixed when the list is built.                                       *)
(***************************************************************************)
EXTENDS FiniteSets, Integers, Sequences, TLC

(* ------------------------------ bounds --------------------------------- *)

\* number of TestCase objects held by the test list
NumTests == 3

\* processors of the platform pool (total = max available)
PlatformTotal == 4

(* ----------------------------- constants ------------------------------- *)

\* Python None as a return value or collection entry (test ids start at 1)
None == 0

TestIds == 1..NumTests

\* (np parameter, runtime estimate) of a test; np = 0 also stands for a
\* test with no np parameter, getParameters().get('np',0)
Profiles ==
    { <<8, 5>>, <<4, 10>>, <<2, 100>>, <<2, 10>>, <<0, 5>> }

\* declared dependencies: test -> set of dependee tests
DepChoices ==
    { [t \in TestIds |-> {}],
      [t \in TestIds |-> IF t = 2 THEN {1} ELSE {}],
      [t \in TestIds |-> IF t = 1 THEN {NumTests} ELSE {}] }

\* TestStatus: not run yet, running, or done with a result
StatusValues == {"notrun", "notdone", "pass", "fail"}

VARIABLES
    tlist,      \* TestList.getTests(): id -> [np, rt, skip]
    deps,       \* TestCase.deps: id -> set of dependee ids
    status,     \* TestCase.getStat(): id -> StatusValues
    created,    \* createTestExecs() has run
    backlog,    \* TestBacklog.tests: sequence of ids
    waiting,    \* TestExecList.waiting
    started,    \* TestExecList.started
    stopped,    \* TestExecList.stopped
    remaining,  \* tests handed to the caller by popRemaining()
    inuse,      \* Platform procpool: processors charged
    resobj,     \* TestExec resource object: id -> processors held
    ret,        \* last call: [op, arg, val], val the value it returned
    xtlist,     \* TestList.xtlist: np -> sequence of ids (TestList.py)
    tspecs,     \* TestList.tspecs in iteration order: sequence of TestSpec
    skip,       \* TestStatus skip reason of tspecs[i], "" when not skipped
    groupmap,   \* ParameterizeAnalyzeGroups.groupmap: key -> test indices
    rtconfig,   \* RuntimeConfig attributes: [runtime_sum, runtime_max, ..]
    pset,       \* tspecs[i].getParameterSet(): [params, instances]
    raised,     \* exception that ended the last call, "" when it returned
    passes,     \* completed calls of applyPermanentFilters
    numactive,  \* TestList.numactive
    tdeps,      \* deps list of test i: sequence of TestDependency
    depdirs,    \* TestCase.depdirs of test i: set of <<xdir, pattern>>
    has_dependent, \* has_dependent flag of test i
    addlog,     \* the TestDependency arguments of addDependency, in call order
    calls,      \* the calls made on the ParameterSet pset[1], in call order
    clock,      \* time.time() in whole seconds, as time.strftime reads it
    jobs,       \* the Job objects in order of construction: fields and attrD
    jobdb,      \* JobRunner.jobdb: sequence of << job id, index of jobs >>
    jobwaiting, \* JobRunner.waiting: sequence of << index of jobs, wait id >>
    conn,       \* Job._connect in progress: loop index, sleeps, result
    slurm,      \* BatchSLURM.submit: the output of sbatch and the value returned
    results,    \* TestResults objects: dataD and dcache of each
    attrs,      \* attribute dicts written by make_attr_string, read by read_attrs
    plat        \* Platform / PlatformConfig: options, attributes and pools

\* the scheduler state (execlist.py, the scheduler half of TestList.py)
schedvars == << tlist, deps, status, created, backlog, waiting, started,
                stopped, remaining, inuse, resobj, ret, xtlist >>

\* the test list state: filtering and dependency connection (TestList.py)
listvars == << tspecs, skip, groupmap, rtconfig, pset, raised, passes,
               numactive, tdeps, depdirs, has_dependent, addlog >>

\* the ParameterSet call log and the background job runner (runjob.py)
runnervars == << calls, clock, jobs, jobdb, jobwaiting, conn >>

\* the batch interface, the results files and the platform (slurm.py,
\* fmtresults.py, vvplatform.py, makeplatform.py)
toolvars == << slurm, results, attrs, plat >>

vars == << schedvars, listvars, runnervars, toolvars >>

(* --------------------------- test attributes --------------------------- *)

\* int( tspec.getParameters().get('np', 0) )
NP(t) == tlist[t].np

\* tcase.getStat().getRuntime( 0 )
Runtime(t) == tlist[t].rt

\* tcase.getStat().skipTest()
skipTest(t) == tlist[t].skip

\* TestStatus.isDone() of a status value
isDone(st) == st \in {"pass", "fail"}

\* TestStatus.isNotDone() of a status value
isNotDone(st) == st = "notdone"

\* the tests the scheduler is to run
ActiveTests == { t \in TestIds : ~skipTest(t) }

(* ----------------------- dependency blocking --------------------------- *)

\* TestDependency.isBlocking(): the dependee is not done yet, or is done
\* with a result that does not satisfy the (default) result expression
isBlocking(d) == status[d] /= "pass"

\* tcase.getBlockingDependency() /= None
isBlocked(t) == \E d \in deps[t] : isBlocking(d)

(* ------------------------------ TestBacklog ---------------------------- *)

\* make_runtime_key: [ np, runtime ]
make_runtime_key(t) == << NP(t), Runtime(t) >>

\* Python list comparison k1 < k2 of two [np, value] keys
KeyLess(k1, k2) ==
    \/ k1[1] < k2[1]
    \/ k1[1] = k2[1] /\ k1[2] < k2[2]

\* mutation of InsertPos: reverse=True is lost, the sort is ascending
RECURSIVE InsertPos_ascending(_, _, _)
InsertPos_ascending(sorted, x, i) ==
    IF i > Len(sorted) THEN i
    ELSE IF KeyLess(make_runtime_key(x), make_runtime_key(sorted[i])) THEN i
    ELSE InsertPos_ascending(sorted, x, i + 1)

\* position at which list.sort( key, reverse=True ) places x in the already
\* sorted prefix: after every entry whose key is not less than the key of x
RECURSIVE InsertPos(_, _, _)
InsertPos(sorted, x, i) ==
    IF i > Len(sorted) THEN i
    ELSE IF KeyLess(make_runtime_key(sorted[i]), make_runtime_key(x)) THEN i
    ELSE InsertPos(sorted, x, i + 1)

InsertAt(seq, i, x) == SubSeq(seq, 1, i - 1) \o << x >> \o SubSeq(seq, i, Len(seq))

\* TestBacklog.sort( 'runtime' ): self.tests.sort( key=..., reverse=True ),
\* a stable sort in descending key order
RECURSIVE SortFrom(_, _, _)
SortFrom(tests, i, sorted) ==
    IF i > Len(tests) THEN sorted
    ELSE SortFrom(tests, i + 1,
                  InsertAt(sorted, InsertPos(sorted, tests[i], 1), tests[i]))

sort(tests) == SortFrom(tests, 1, << >>)

\* mutation of bisect_loop: "np <= npmid" for "np < npmid", which also skips
\* the entries whose np equals the limit
RECURSIVE bisect_loop_le(_, _, _, _)
bisect_loop_le(tests, np, lo, hi) ==
    IF lo < hi
    THEN LET mid == (lo + hi) \div 2
             npmid == tlist[tests[mid + 1]].np
         IN IF np <= npmid
            THEN bisect_loop_le(tests, np, mid + 1, hi)
            ELSE bisect_loop_le(tests, np, lo, mid)
    ELSE lo

\* bisect_left( tests, np ): binary search on a list in descending np order;
\* indices are 0-based as in the source
RECURSIVE bisect_loop(_, _, _, _)
bisect_loop(tests, np, lo, hi) ==
    IF lo < hi
    THEN LET mid == (lo + hi) \div 2
             npmid == NP(tests[mid + 1])
         IN IF np < npmid
            THEN bisect_loop(tests, np, mid + 1, hi)
            ELSE bisect_loop(tests, np, lo, mid)
    ELSE lo

bisect_left(tests, np) == bisect_loop(tests, np, 0, Len(tests))

\* a TestConstraint: maxnp is meaningful only when limited (maxnp /= None)
UnlimitedConstraint == [limited |-> FALSE, maxnp |-> 0]

\* TestConstraint( platform ): maxnp = platform.maxAvailableSize()
SizeConstraint(maxnp) == [limited |-> TRUE, maxnp |-> maxnp]

Max(a, b) == IF a > b THEN a ELSE b

Min(a, b) == IF a < b THEN a ELSE b

\* mutation of apply: the blocking dependency check is missing
apply_noblock(constraint, t) ==
    IF constraint.limited /\ Max(NP(t), 1) > constraint.maxnp THEN FALSE
    ELSE TRUE

\* mutation of apply: npval = int(np) without max( .., 1 )
apply_nomax(constraint, t) ==
    IF constraint.limited /\ NP(t) > constraint.maxnp THEN FALSE
    ELSE IF isBlocked(t) THEN FALSE
    ELSE TRUE

\* TestConstraint.apply( tcase )
apply(constraint, t) ==
    IF constraint.limited /\ Max(NP(t), 1) > constraint.maxnp THEN FALSE
    ELSE IF isBlocked(t) THEN FALSE
    ELSE TRUE

\* mutation of get_starting_index: the scan starts one entry past the
\* index the binary search found
get_starting_index_past(tests, constraint) ==
    IF ~constraint.limited THEN 0
    ELSE Min(bisect_left(tests, constraint.maxnp) + 1, Len(tests))

\* TestBacklog._get_starting_index( max_np ), 0-based
get_starting_index(tests, constraint) ==
    IF ~constraint.limited THEN 0 ELSE bisect_left(tests, constraint.maxnp)

\* the while loop of TestBacklog.pop(): first index >= idx (0-based) whose
\* test is accepted; Len(tests) when there is none
RECURSIVE pop_scan(_, _, _, _)
pop_scan(tests, given, constraint, idx) ==
    IF idx < Len(tests)
    THEN IF ~given \/ apply(constraint, tests[idx + 1])
         THEN idx
         ELSE pop_scan(tests, given, constraint, idx + 1)
    ELSE idx

RemoveAt(seq, i) == SubSeq(seq, 1, i - 1) \o SubSeq(seq, i + 1, Len(seq))

\* TestBacklog.pop( constraint ): [tcase, tests] after the call; given is
\* FALSE for pop() without a constraint
pop(tests, given, constraint) ==
    LET idx == pop_scan(tests, given, constraint,
                        IF given THEN get_starting_index(tests, constraint)
                        ELSE 0)
    IN IF idx < Len(tests)
       THEN [tcase |-> tests[idx + 1], tests |-> RemoveAt(tests, idx + 1)]
       ELSE [tcase |-> None, tests |-> tests]


(* ------------------------------- Platform ------------------------------ *)

\* platform.maxAvailableSize(): processors currently free, never negative
maxAvailableSize == Max(0, PlatformTotal - inuse)

\* processors the pool charges for a request of np: min( np, numTotal() )
Charge(np) == Min(np, PlatformTotal)

(* ----------------------------- TestExecList ---------------------------- *)

\* no test list is under construction: the scheduler runs on tlist
ListIdle ==
    /\ tspecs = << >>
    /\ skip = << >>
    /\ groupmap = << >>
    /\ rtconfig = << >>
    /\ pset = << >>
    /\ raised = ""
    /\ passes = 0
    /\ numactive = 0
    /\ tdeps = << >>
    /\ depdirs = << >>
    /\ has_dependent = << >>
    /\ addlog = << >>

\* no ParameterSet is driven and the job runner has not been used
RunnerIdle ==
    /\ calls = << >>
    /\ clock = 0
    /\ jobs = << >>
    /\ jobdb = << >>
    /\ jobwaiting = << >>
    /\ conn = << >>

\* no batch job submitted, no results object, no attribute dict, no
\* platform made
ToolsIdle ==
    /\ slurm = << >>
    /\ results = << >>
    /\ attrs = << >>
    /\ plat = << >>

\* TestExecList.__init__ over a filtered test list whose tests take their
\* (np, runtime) from profs and whose skipped tests are one of skipsets
InitWith(profs, skipsets, depchoices) ==
    /\ \E prof \in [TestIds -> profs], skips \in skipsets :
          tlist = [t \in TestIds |->
                     [np |-> prof[t][1], rt |-> prof[t][2], skip |-> t \in skips]]
    /\ deps \in depchoices
    /\ status = [t \in TestIds |-> "notrun"]
    /\ created = FALSE
    /\ backlog = << >>
    /\ waiting = {}
    /\ started = {}
    /\ stopped = {}
    /\ remaining = {}
    /\ inuse = 0
    /\ resobj = << >>
    /\ ret = [op |-> "init", arg |-> None, val |-> None]
    /\ xtlist = << >>
    /\ ListIdle
    /\ RunnerIdle
    /\ ToolsIdle

\* any call sequence on tests of one size, any of them skipped
Init ==
    InitWith({ <<2, 10>> }, SUBSET TestIds,
             { d \in DepChoices : d[1] = {} })

\* the pool loop on every mix of profiles, the last test possibly skipped
InitPool == InitWith(Profiles, { {}, {NumTests} }, DepChoices)

\* mutation of generate_backlog: the skipTest() check is missing
RECURSIVE generate_backlog_noskip(_)
generate_backlog_noskip(t) ==
    IF t > NumTests THEN << >>
    ELSE << t >> \o generate_backlog_noskip(t + 1)

\* _generate_backlog_from_testlist: insert() every test that is not skipped
RECURSIVE generate_backlog(_)
generate_backlog(t) ==
    IF t > NumTests THEN << >>
    ELSE IF ~skipTest(t) THEN << t >> \o generate_backlog(t + 1)
    ELSE generate_backlog(t + 1)

\* TestExecList.createTestExecs
createTestExecs ==
    /\ ~created
    /\ created' = TRUE
    /\ backlog' = sort(generate_backlog(1))
    /\ ret' = [op |-> "createTestExecs", arg |-> None, val |-> None]
    /\ UNCHANGED << runnervars, toolvars, listvars, xtlist, tlist, deps, status, waiting, started, stopped, remaining,
                    inuse, resobj >>

\* TestExecList._pop_next_test: result of backlog.pop( TestConstraint(..) )
pop_next_test(tests, constraint) == pop(tests, TRUE, constraint)

\* mutation of popNextValue: the first pass is made without the platform,
\* so without a size limit
popNextValue_nosize ==
    LET first == pop_next_test(backlog, UnlimitedConstraint)
    IN IF first.tcase = None /\ Cardinality(started) = 0
       THEN pop_next_test(backlog, UnlimitedConstraint)
       ELSE first

\* mutation of popNextValue: the second pass does not ask for
\* len(self.started) == 0
popNextValue_noidle ==
    LET first == pop_next_test(backlog, SizeConstraint(maxAvailableSize))
    IN IF first.tcase = None
       THEN pop_next_test(backlog, UnlimitedConstraint)
       ELSE first

\* value of TestExecList.popNext( platform ): [tcase, tests]
popNextValue ==
    LET first == pop_next_test(backlog, SizeConstraint(maxAvailableSize))
    IN IF first.tcase = None /\ Cardinality(started) = 0
       THEN pop_next_test(backlog, UnlimitedConstraint)
       ELSE first

\* TestExecList.popNext( platform )
popNext ==
    /\ LET r == popNextValue
       IN /\ backlog' = r.tests
          /\ waiting' = IF r.tcase = None THEN waiting ELSE waiting \cup {r.tcase}
          /\ ret' = [op |-> "popNext", arg |-> None, val |-> r.tcase]
    /\ UNCHANGED << runnervars, toolvars, listvars, xtlist, tlist, deps, status, created, started, stopped, remaining,
                    inuse, resobj >>

\* TestExecList.getNextTest
getNextTest ==
    /\ LET r == pop(backlog, FALSE, UnlimitedConstraint)
       IN /\ backlog' = r.tests
          /\ waiting' = IF r.tcase = None THEN waiting ELSE waiting \cup {r.tcase}
          /\ ret' = [op |-> "getNextTest", arg |-> None, val |-> r.tcase]
    /\ UNCHANGED << runnervars, toolvars, listvars, xtlist, tlist, deps, status, created, started, stopped, remaining,
                    inuse, resobj >>

\* one iteration of the generator TestExecList.consumeBacklog
consumeBacklog ==
    /\ Len(backlog) > 0
    /\ backlog' = Tail(backlog)
    /\ waiting' = waiting \cup {Head(backlog)}
    /\ ret' = [op |-> "consumeBacklog", arg |-> None, val |-> Head(backlog)]
    /\ UNCHANGED << runnervars, toolvars, listvars, xtlist, tlist, deps, status, created, started, stopped, remaining,
                    inuse, resobj >>

\* TestExecList.popRemaining: the whole backlog is removed and returned
popRemaining ==
    /\ backlog' = << >>
    /\ remaining' = remaining \cup { backlog[i] : i \in 1..Len(backlog) }
    /\ ret' = [op |-> "popRemaining", arg |-> None, val |-> None]
    /\ UNCHANGED << runnervars, toolvars, listvars, xtlist, tlist, deps, status, created, waiting, started, stopped,
                    inuse, resobj >>

\* TestExecList.startTest( tcase, platform ): moveToStarted,
\* platform.getResources( np ), texec.start(), markStarted
startTest(t) ==
    /\ t \in waiting
    /\ waiting' = waiting \ {t}
    /\ started' = started \cup {t}
    /\ inuse' = inuse + Charge(NP(t))
    /\ resobj' = [x \in (DOMAIN resobj) \cup {t} |->
                    IF x = t THEN Charge(NP(t)) ELSE resobj[x]]
    /\ status' = [status EXCEPT ![t] = "notdone"]
    /\ ret' = [op |-> "startTest", arg |-> t, val |-> None]
    /\ UNCHANGED << runnervars, toolvars, listvars, xtlist, tlist, deps, created, backlog, stopped, remaining >>

\* mutation of testDone: the test is not taken out of started
testDone_nopop(t) ==
    /\ t \in started
    /\ stopped' = stopped \cup {t}
    /\ ret' = [op |-> "testDone", arg |-> t, val |-> None]
    /\ UNCHANGED << runnervars, toolvars, listvars, xtlist, tlist, deps, status, created, backlog, waiting,
                    started, remaining, inuse, resobj >>

\* TestExecList.testDone( tcase ) for a running test
testDone(t) ==
    /\ t \in started
    /\ started' = started \ {t}
    /\ stopped' = stopped \cup {t}
    /\ ret' = [op |-> "testDone", arg |-> t, val |-> None]
    /\ UNCHANGED << runnervars, toolvars, listvars, xtlist, tlist, deps, status, created, backlog, waiting, remaining,
                    inuse, resobj >>

\* mutation of checkStateChange: a done test is moved to stopped wherever
\* it is, the "elif tid in self.started" test being lost
checkStateChange_anywhere(tid, tmpstat) ==
    LET tmpNotDone == isNotDone(tmpstat)
        tmpDone == isDone(tmpstat)
        toStarted == tid \in waiting /\ tmpNotDone
        toStopped == tmpDone /\ tid \notin stopped
        tcase == IF toStarted \/ toStopped THEN tid ELSE None
    IN /\ waiting' = IF toStarted \/ toStopped THEN waiting \ {tid} ELSE waiting
       /\ started' = IF toStarted THEN started \cup {tid}
                     ELSE IF toStopped THEN started \ {tid}
                     ELSE started
       /\ stopped' = IF toStopped THEN stopped \cup {tid} ELSE stopped
       /\ status' = IF tcase /= None THEN [status EXCEPT ![tid] = tmpstat]
                    ELSE status
       /\ ret' = [op |-> "checkStateChange", arg |-> tid, val |-> tcase]
       /\ UNCHANGED << runnervars, toolvars, listvars, xtlist, tlist, deps, created, backlog, remaining, inuse,
                       resobj >>

\* TestExecList.checkStateChange( tmp_tcase ): tmp_tcase carries the id and
\* the status read back from a batch job
checkStateChange(tid, tmpstat) ==
    LET tmpNotDone == isNotDone(tmpstat)
        tmpDone == isDone(tmpstat)
        toStarted == tid \in waiting /\ tmpNotDone
        toStopped == \/ tid \in waiting /\ ~tmpNotDone /\ tmpDone
                     \/ tid \notin waiting /\ tid \in started /\ tmpDone
        tcase == IF toStarted \/ toStopped THEN tid ELSE None
    IN /\ waiting' = IF tid \in waiting /\ (toStarted \/ toStopped)
                     THEN waiting \ {tid} ELSE waiting
       /\ started' = IF toStarted THEN started \cup {tid}
                     ELSE IF toStopped THEN started \ {tid}
                     ELSE started
       /\ stopped' = IF toStopped THEN stopped \cup {tid} ELSE stopped
       /\ status' = IF tcase /= None THEN [status EXCEPT ![tid] = tmpstat]
                    ELSE status
       /\ ret' = [op |-> "checkStateChange", arg |-> tid, val |-> tcase]
       /\ UNCHANGED << runnervars, toolvars, listvars, xtlist, tlist, deps, created, backlog, remaining, inuse, resobj >>

\* the runner's poll of a running test: the test has exited with a result
\* and its processors go back to the pool, platform.returnResources
poll(t, result) ==
    /\ t \in started
    /\ status[t] = "notdone"
    /\ t \in DOMAIN resobj
    /\ status' = [status EXCEPT ![t] = result]
    /\ inuse' = inuse - resobj[t]
    /\ resobj' = [x \in (DOMAIN resobj) \ {t} |-> resobj[x]]
    /\ ret' = [op |-> "poll", arg |-> t, val |-> None]
    /\ UNCHANGED << runnervars, toolvars, listvars, xtlist, tlist, deps, created, backlog, waiting, started, stopped,
                    remaining >>

Next ==
    \/ createTestExecs
    \/ popNext
    \/ getNextTest
    \/ consumeBacklog
    \/ popRemaining
    \/ \E t \in TestIds : startTest(t)
    \/ \E t \in TestIds : testDone(t)
    \/ \E t \in TestIds, st \in StatusValues : checkStateChange(t, st)
    \/ \E t \in TestIds, r \in {"pass", "fail"} : poll(t, r)

Spec == Init /\ [][Next]_vars


(* ------------------------- pool scheduling loop ------------------------ *)

\* the loop pops a next test only after it has launched the previous one
LoopPopNext ==
    /\ created
    /\ waiting = {}
    /\ popNext

\* a running test exits: its processors are returned and testDone is called
LoopTestDone(t, result) ==
    /\ t \in started
    /\ status[t] = "notdone"
    /\ t \in DOMAIN resobj
    /\ status' = [status EXCEPT ![t] = result]
    /\ inuse' = inuse - resobj[t]
    /\ resobj' = [x \in (DOMAIN resobj) \ {t} |-> resobj[x]]
    /\ started' = started \ {t}
    /\ stopped' = stopped \cup {t}
    /\ ret' = [op |-> "testDone", arg |-> t, val |-> None]
    /\ UNCHANGED << runnervars, toolvars, listvars, xtlist, tlist, deps, created, backlog, waiting, remaining >>

\* nothing runs and nothing can be popped: the rest is popped as not run
LoopPopRemaining ==
    /\ created
    /\ waiting = {}
    /\ started = {}
    /\ popNextValue.tcase = None
    /\ popRemaining

NextPool ==
    \/ createTestExecs
    \/ LoopPopNext
    \/ \E t \in TestIds : startTest(t)
    \/ \E t \in TestIds, r \in {"pass", "fail"} : LoopTestDone(t, r)
    \/ LoopPopRemaining

SpecPool == InitPool /\ [][NextPool]_vars


(* ------------------ TestList scheduler (TestList.py) ------------------- *)

\* the keys of xtlist: the np values that have a list
XtKeys == DOMAIN xtlist

\* the tests held by xtlist
InXtlist == UNION { { xtlist[n][i] : i \in 1..Len(xtlist[n]) } : n \in XtKeys }

\* all orderings of a set of tests
RECURSIVE Orderings(_)
Orderings(S) ==
    IF S = {} THEN { << >> }
    ELSE UNION { { << t >> \o o : o \in Orderings(S \ {t}) } : t \in S }

\* TestList.sortTestExecList leaves each list in an order of descending
\* runtime: the (tm, tx) tuples are sorted and reversed, so tests of equal
\* runtime end up in the order of the TestExec objects themselves, which is
\* no order of the program's making
IsSortedExecList(L) ==
    \A i \in 1..Len(L), j \in 1..Len(L) :
        i < j => Runtime(L[i]) >= Runtime(L[j])

\* TestList._createTestExecList: a TestExec per test that is not skipped,
\* filed under its np, each list then sorted by sortTestExecList
TestList_createTestExecList ==
    /\ ~created
    /\ created' = TRUE
    /\ \E order \in Orderings(ActiveTests) :
          LET keys == { NP(t) : t \in ActiveTests }
              listOf(n) == SelectSeq(order, LAMBDA t : NP(t) = n)
          IN /\ \A n \in keys : IsSortedExecList(listOf(n))
             /\ xtlist' = [n \in keys |-> listOf(n)]
    /\ ret' = [op |-> "createTestExecs", arg |-> None, val |-> None]
    /\ UNCHANGED << runnervars, toolvars, listvars, tlist, deps, status, backlog, waiting, started, stopped,
                    remaining, inuse, resobj >>

\* platform.queryProcs( np ): np processors are free
queryProcs(np) == Max(np, 1) <= maxAvailableSize

\* the largest key of a non-empty set of np values
MaxOf(S) == CHOOSE n \in S : \A m \in S : m <= n

\* first index (1-based) of a test without a blocking dependency in L at or
\* after i; Len(L) + 1 when there is none
RECURSIVE first_unblocked(_, _)
first_unblocked(L, i) ==
    IF i > Len(L) THEN i
    ELSE IF ~isBlocked(L[i]) THEN i
    ELSE first_unblocked(L, i + 1)

\* TestList._pop_next_test( npL, platform ) over the keys left to visit, in
\* descending order: [tcase, np, idx], tcase = None when nothing is found
RECURSIVE TestList_pop_next_test(_, _)
TestList_pop_next_test(keys, sized) ==
    IF keys = {} THEN [tcase |-> None, np |-> 0, idx |-> 0]
    ELSE LET np == MaxOf(keys)
             i == first_unblocked(xtlist[np], 1)
         IN IF (~sized \/ queryProcs(np)) /\ i <= Len(xtlist[np])
            THEN [tcase |-> xtlist[np][i], np |-> np, idx |-> i]
            ELSE TestList_pop_next_test(keys \ {np}, sized)

\* TestList._pop_test_exec( np, i ): the entry is deleted, and the key with
\* it when its list becomes empty
pop_test_exec(np, i) ==
    LET L == RemoveAt(xtlist[np], i)
    IN IF Len(L) = 0
       THEN [n \in XtKeys \ {np} |-> xtlist[n]]
       ELSE [xtlist EXCEPT ![np] = L]

\* TestList.popNext( platform ): the popped test goes straight to started
TestList_popNext ==
    /\ LET first == TestList_pop_next_test(XtKeys, TRUE)
           r == IF first.tcase = None /\ Cardinality(started) = 0
                THEN TestList_pop_next_test(XtKeys, FALSE)
                ELSE first
       IN /\ xtlist' = IF r.tcase = None THEN xtlist
                       ELSE pop_test_exec(r.np, r.idx)
          /\ started' = IF r.tcase = None THEN started
                        ELSE started \cup {r.tcase}
          /\ ret' = [op |-> "popNext", arg |-> None, val |-> r.tcase]
    /\ UNCHANGED << runnervars, toolvars, listvars, tlist, deps, status, created, backlog, waiting, stopped,
                    remaining, inuse, resobj >>

\* the popped TestExec is started: it obtains its processors
TestExec_start(t) ==
    /\ t \in started
    /\ t \notin DOMAIN resobj
    /\ inuse' = inuse + Charge(NP(t))
    /\ resobj' = [x \in (DOMAIN resobj) \cup {t} |->
                    IF x = t THEN Charge(NP(t)) ELSE resobj[x]]
    /\ status' = [status EXCEPT ![t] = "notdone"]
    /\ ret' = [op |-> "start", arg |-> t, val |-> None]
    /\ UNCHANGED << runnervars, toolvars, listvars, tlist, deps, created, backlog, waiting, started, stopped,
                    remaining, xtlist >>

\* the loop pops a next test once the previous one has been started
TestListLoopPopNext ==
    /\ created
    /\ started \subseteq DOMAIN resobj
    /\ TestList_popNext

\* a running test exits and gives its processors back, and
\* TestList.testDone moves it from started to stopped
TestListLoopTestDone(t, result) ==
    /\ t \in started
    /\ t \in DOMAIN resobj
    /\ status' = [status EXCEPT ![t] = result]
    /\ inuse' = inuse - resobj[t]
    /\ resobj' = [x \in (DOMAIN resobj) \ {t} |-> resobj[x]]
    /\ started' = started \ {t}
    /\ stopped' = stopped \cup {t}
    /\ ret' = [op |-> "testDone", arg |-> t, val |-> None]
    /\ UNCHANGED << runnervars, toolvars, listvars, tlist, deps, created, backlog, waiting, remaining, xtlist >>

\* TestList.popRemaining: every list is emptied and its key dropped
TestList_popRemaining ==
    /\ xtlist' = << >>
    /\ remaining' = remaining \cup InXtlist
    /\ ret' = [op |-> "popRemaining", arg |-> None, val |-> None]
    /\ UNCHANGED << runnervars, toolvars, listvars, tlist, deps, status, created, backlog, waiting, started,
                    stopped, inuse, resobj >>

\* nothing runs and nothing can be popped: the rest is popped as not run
TestListLoopPopRemaining ==
    /\ created
    /\ started = {}
    /\ TestList_pop_next_test(XtKeys, FALSE).tcase = None
    /\ TestList_popRemaining

NextTestList ==
    \/ TestList_createTestExecList
    \/ TestListLoopPopNext
    \/ \E t \in TestIds : TestExec_start(t)
    \/ \E t \in TestIds, r \in {"pass", "fail"} : TestListLoopTestDone(t, r)
    \/ TestListLoopPopRemaining

SpecTestList == InitPool /\ [][NextTestList]_vars

(* ======================= scheduler collections ========================= *)

\* the tests held by the backlog
InBacklog == { backlog[i] : i \in 1..Len(backlog) }

\* |started| + |stopped| + |backlog| + |waiting|
HeldCount ==
    Cardinality(started) + Cardinality(stopped) + Len(backlog)
        + Cardinality(waiting)

C10_SkippedNeverScheduled ==
    \A t \in TestIds :
        skipTest(t) =>
            /\ t \notin InBacklog
            /\ t \notin waiting \cup started \cup stopped \cup remaining
            /\ ret.val /= t

\* a list with a skipped test has been scheduled to the end
C10_Witness ==
    /\ created
    /\ \E t \in TestIds : skipTest(t)
    /\ ActiveTests /= {}
    /\ stopped = ActiveTests


(* ========================= processor accounting ======================== *)

Popped == ret.op = "popNext" /\ ret.val /= None

\* the test fits the size the platform had free when popNext was called
\* (popNext changes neither the platform nor started)
Fits(t) == Max(NP(t), 1) <= maxAvailableSize

\* C3: popNext returns a test that does not fit the free size only when no
\* test is started; while a test is running every returned test fits.
C3_OversizeOnlyWhenIdle ==
    Popped => (Fits(ret.val) \/ Cardinality(started) = 0)

\* both cases: an oversize test returned on an idle platform, and a fitting
\* test returned while another runs
C3_Witness ==
    /\ Popped
    /\ ~Fits(ret.val)
    /\ started = {}
    /\ stopped /= {}
    /\ InBacklog /= {}

\* C5: popNext never returns a test with a blocking dependency, in either
\* pass; the check is made when popping, so a test whose dependee has
\* passed since is returned.
C5_NeverBlocked ==
    /\ Popped => ~isBlocked(ret.val)
    /\ \A t \in InBacklog :
          (~isBlocked(t) /\ started = {}) => popNextValue.tcase /= None

\* a test with a dependency, blocked while its dependee ran, has been
\* returned after the dependee passed
C5_Witness ==
    /\ Popped
    /\ deps[ret.val] /= {}
    /\ \A d \in deps[ret.val] : d \in stopped /\ status[d] = "pass"

\* the backlog entry e satisfies the constraint of the pass that returned r
EligibleWith(r, e) ==
    /\ ~isBlocked(e)
    /\ Fits(r) => NP(e) <= maxAvailableSize

\* C6: the test returned by a pop on the runtime-sorted backlog has the
\* greatest (np, runtime) key among the entries that satisfy the constraint:
\* no eligible entry left in the backlog has a strictly larger key.
C6_GreatestEligibleKey ==
    Popped =>
        \A e \in InBacklog :
            EligibleWith(ret.val, e) =>
                ~KeyLess(make_runtime_key(ret.val), make_runtime_key(e))

\* a test was returned past a larger one that does not fit and past a
\* blocked one, with a smaller eligible one left behind
C6_Witness ==
    /\ Popped
    /\ Fits(ret.val)
    /\ \E e \in InBacklog : NP(e) > maxAvailableSize
    /\ \E e \in InBacklog :
          /\ EligibleWith(ret.val, e)
          /\ KeyLess(make_runtime_key(e), make_runtime_key(ret.val))

\* C8: a pop with a constraint of maxnp = 0 returns None and leaves the
\* backlog as it is, whatever the backlog holds, tests of np = 0 included.
C8_MaxnpZeroPopsNothing ==
    /\ pop(backlog, TRUE, SizeConstraint(0))
          = [tcase |-> None, tests |-> backlog]
    /\ (ret.op = "popNext" /\ maxAvailableSize = 0 /\ started /= {})
          => ret.val = None

\* popNext was called with no processor free and an unblocked np = 0 test
\* in the backlog
C8_Witness ==
    /\ ret.op = "popNext"
    /\ ret.val = None
    /\ maxAvailableSize = 0
    /\ started /= {}
    /\ \E t \in InBacklog : NP(t) = 0 /\ ~isBlocked(t)


(* ================== scenario: longest first with promotion ============= *)

\* the backlog holds (np=4, rt=10), (np=2, rt=100), (np=8, rt=5), inserted
\* in this order, on a platform of 4 processors
IsScenario ==
    /\ PlatformTotal = 4
    /\ tlist[1] = [np |-> 4, rt |-> 10, skip |-> FALSE]
    /\ tlist[2] = [np |-> 2, rt |-> 100, skip |-> FALSE]
    /\ tlist[3] = [np |-> 8, rt |-> 5, skip |-> FALSE]
    /\ \A t \in TestIds : t > 3 => tlist[t].skip
    /\ \A t \in TestIds : deps[t] = {}

TiesInInsertionOrder(L) ==
    \A i \in 1..Len(L), j \in 1..Len(L) :
        (i < j /\ make_runtime_key(L[i]) = make_runtime_key(L[j]))
            => L[i] < L[j]

\* C7: among tests of equal (np, runtime) key the sort keeps the insertion
\* order, in the backlog of TestExecList and in the lists of TestList.
C7_TiesKeepInsertionOrder ==
    /\ TiesInInsertionOrder(backlog)
    /\ \A n \in XtKeys : TiesInInsertionOrder(xtlist[n])

\* the TestBacklog half of C7: after TestBacklog.sort the tied tests of the
\* backlog stand in insertion order, and popNext returns no test while an
\* eligible test of the same key inserted earlier is left in the backlog
C7_BacklogStable ==
    /\ TiesInInsertionOrder(backlog)
    /\ Popped =>
          \A e \in InBacklog :
              (EligibleWith(ret.val, e)
                 /\ make_runtime_key(e) = make_runtime_key(ret.val))
                  => ret.val < e



(* ======================================================================= *)
(* Test list: execute directories, dependency patterns, filtering          *)
(* (vvt/libvvtest/TestList.py, vvt/libvvtest/ParameterSet.py,              *)
(* libvvtest/testcase.py)                                                  *)
(* ======================================================================= *)

(* ------------------- strings: paths and shell patterns ------------------ *)

\* A path or a pattern is the sequence of its characters.  The characters
\* in use, in code point order (Python compares strings by code point)
Alphabet ==
    << "*", ".", "/", "1", "2", "3", "4", "5", "=", "?",
       "a", "b", "c", "g", "p", "t", "x" >>

Ord(c) == CHOOSE i \in 1..Len(Alphabet) : Alphabet[i] = c

\* Python s < t on strings
RECURSIVE StrLess(_, _)
StrLess(s, t) ==
    IF t = << >> THEN FALSE
    ELSE IF s = << >> THEN TRUE
    ELSE IF Head(s) = Head(t) THEN StrLess(Tail(s), Tail(t))
    ELSE Ord(Head(s)) < Ord(Head(t))

\* fnmatch.fnmatch( name, pat ) for patterns of literal characters, "?" and
\* "*": the whole name must match, "*" matches any run of characters ("/"
\* included), "?" any one character
RECURSIVE fnmatch(_, _)
fnmatch(name, pat) ==
    IF pat = << >> THEN name = << >>
    ELSE IF Head(pat) = "*"
         THEN \/ fnmatch(name, Tail(pat))
              \/ name /= << >> /\ fnmatch(Tail(name), pat)
    ELSE IF name = << >> THEN FALSE
    ELSE /\ Head(pat) = "?" \/ Head(pat) = Head(name)
         /\ fnmatch(Tail(name), Tail(pat))

\* path.rfind('/') + 1
RECURSIVE rfind_sep(_, _)
rfind_sep(path, i) ==
    IF i = 0 THEN 0
    ELSE IF path[i] = "/" THEN i
    ELSE rfind_sep(path, i - 1)

\* head.rstrip('/')
RECURSIVE rstrip_sep(_)
rstrip_sep(head) ==
    IF head /= << >> /\ head[Len(head)] = "/"
    THEN rstrip_sep(SubSeq(head, 1, Len(head) - 1))
    ELSE head

\* os.path.dirname( path )
dirname(path) ==
    LET head == SubSeq(path, 1, rfind_sep(path, Len(path)))
    IN IF head /= << >> /\ rstrip_sep(head) /= << >>
       THEN rstrip_sep(head)
       ELSE head

\* path.split('/'), cur the component being read
RECURSIVE split_sep(_, _)
split_sep(path, cur) ==
    IF path = << >> THEN << cur >>
    ELSE IF Head(path) = "/" THEN << cur >> \o split_sep(Tail(path), << >>)
    ELSE split_sep(Tail(path), Append(cur, Head(path)))

\* '/'.join( comps )
RECURSIVE join_sep(_)
join_sep(comps) ==
    IF comps = << >> THEN << >>
    ELSE IF Len(comps) = 1 THEN comps[1]
    ELSE comps[1] \o << "/" >> \o join_sep(Tail(comps))

\* the component loop of os.path.normpath: drop '' and '.', resolve '..'
RECURSIVE norm_comps(_, _, _)
norm_comps(comps, new_comps, initial_slashes) ==
    IF comps = << >> THEN new_comps
    ELSE LET comp == Head(comps)
             n == Len(new_comps)
         IN IF comp = << >> \/ comp = << "." >>
            THEN norm_comps(Tail(comps), new_comps, initial_slashes)
            ELSE IF \/ comp /= << ".", "." >>
                    \/ initial_slashes = 0 /\ n = 0
                    \/ n > 0 /\ new_comps[n] = << ".", "." >>
            THEN norm_comps(Tail(comps), Append(new_comps, comp),
                            initial_slashes)
            ELSE IF n > 0
            THEN norm_comps(Tail(comps), SubSeq(new_comps, 1, n - 1),
                            initial_slashes)
            ELSE norm_comps(Tail(comps), new_comps, initial_slashes)

\* os.path.normpath( path )
normpath(path) ==
    IF path = << >> THEN << "." >>
    ELSE LET starts(k) == Len(path) >= k /\ path[k] = "/"
             initial_slashes ==
                 IF ~starts(1) THEN 0
                 ELSE IF starts(2) /\ ~starts(3) THEN 2
                 ELSE 1
             joined == join_sep(norm_comps(split_sep(path, << >>), << >>,
                                           initial_slashes))
             res == [i \in 1..initial_slashes |-> "/"] \o joined
         IN IF res = << >> THEN << "." >> ELSE res

\* mutation of find_tests_by_execute_directory_match: every tier's matches
\* are returned, not only those of the first tier that has one
find_tests_all_tiers(xdir, pattern, xdir_list) ==
    LET d == dirname(xdir)
        tbase == IF d = << "." >> \/ d = << >> THEN << >> ELSE d \o << "/" >>
    IN { x \in xdir_list :
           \/ fnmatch(x, normpath(tbase \o pattern))
           \/ fnmatch(x, tbase \o << "*", "/" >> \o pattern)
           \/ fnmatch(x, pattern)
           \/ fnmatch(x, << "*" >> \o pattern) }

\* find_tests_by_execute_directory_match( xdir, pattern, xdir_list ): the
\* set of the execute directories matched by the first of the four patterns
\* that matches any
find_tests_by_execute_directory_match(xdir, pattern, xdir_list) ==
    LET d == dirname(xdir)
        tbase == IF d = << "." >> THEN << >>
                 ELSE IF d /= << >> THEN d \o << "/" >>
                 ELSE d
        p1 == normpath(tbase \o pattern)
        L1 == { x \in xdir_list : fnmatch(x, p1) }
        L2 == { x \in xdir_list :
                  fnmatch(x, tbase \o << "*", "/" >> \o pattern) }
        L3 == { x \in xdir_list : fnmatch(x, pattern) }
        L4 == { x \in xdir_list : fnmatch(x, << "*" >> \o pattern) }
    IN IF L1 /= {} THEN L1
       ELSE IF L2 /= {} THEN L2
       ELSE IF L3 /= {} THEN L3
       ELSE IF L4 /= {} THEN L4
       ELSE {}

(* ------------------------------ ParameterSet --------------------------- *)

\* ParameterSet.__init__
ParameterSet_init == [params |-> << >>, instances |-> << >>]

\* D.copy() with names[i] = values[i] set for every i
set_names(D, names, values) ==
    [n \in DOMAIN D \cup { names[i] : i \in 1..Len(names) } |->
        IF \E i \in 1..Len(names) : names[i] = n
        THEN values[CHOOSE i \in 1..Len(names) :
                       /\ names[i] = n
                       /\ \A j \in 1..Len(names) : names[j] = n => j <= i]
        ELSE D[n]]

\* mutation of add_parameter_group_to_list_of_dicts: the new dictionary
\* starts empty instead of D.copy()
add_parameter_group_nocopy(Dlist, names, values) ==
    [k \in 1..Len(Dlist) |-> set_names(<< >>, names, values)]

\* add_parameter_group_to_list_of_dicts( Dlist, names, values )
add_parameter_group_to_list_of_dicts(Dlist, names, values) ==
    [k \in 1..Len(Dlist) |-> set_names(Dlist[k], names, values)]

\* accumulate_parameter_group_list( Dlist, names, values_list )
RECURSIVE accumulate_parameter_group_list(_, _, _)
accumulate_parameter_group_list(Dlist, names, values_list) ==
    IF values_list = << >> THEN << >>
    ELSE add_parameter_group_to_list_of_dicts(Dlist, names, Head(values_list))
         \o accumulate_parameter_group_list(Dlist, names, Tail(values_list))

\* ParameterSet.addParameterGroup( names, values_list )
addParameterGroup(ps, names, values_list) ==
    LET curL == IF Len(ps.params) = 0 THEN << << >> >> ELSE ps.instances
    IN [params |-> Append(ps.params, << names, values_list >>),
        instances |-> accumulate_parameter_group_list(curL, names,
                                                      values_list)]

\* ParameterSet.addParameter( name, value_list )
addParameter(ps, name, value_list) ==
    addParameterGroup(ps, << name >>,
                      [i \in 1..Len(value_list) |-> << value_list[i] >>])

\* ParameterSet._reconstructInstances
RECURSIVE reconstruct_from(_, _)
reconstruct_from(save_params, ps) ==
    IF save_params = << >> THEN ps
    ELSE reconstruct_from(Tail(save_params),
                          addParameterGroup(ps, Head(save_params)[1],
                                            Head(save_params)[2]))

reconstructInstances(ps) == reconstruct_from(ps.params, ParameterSet_init)

\* the argument of applyParamFilter: a Python function (kind "function",
\* called as f( paramD )) or an object with an evaluate( paramD ) method
\* (kind "filter"); accepts is the set of dictionaries it answers True on
HasEvaluate(param_filter) == param_filter.kind = "filter"

\* ParameterSet.applyParamFilter( param_filter ): the instances are rebuilt
\* and each is put to param_filter.evaluate( instD ); on an argument without
\* that attribute the first instance raises AttributeError, the rebuilt
\* instances staying in place
applyParamFilter(ps, param_filter) ==
    LET rec == reconstructInstances(ps)
    IN IF rec.instances /= << >> /\ ~HasEvaluate(param_filter)
       THEN [pset |-> rec, raised |-> "AttributeError"]
       ELSE [pset |-> [rec EXCEPT !.instances =
                          SelectSeq(rec.instances,
                                    LAMBDA D : D \in param_filter.accepts)],
             raised |-> ""]

(* ------------------------------- TestSpec ------------------------------ *)

\* number of parameterized tests a test file generates besides its analyze
\* test
NumParams == 3

\* statushandler.getRuntime( t, None ) = None: no runtime is recorded
NoRuntime == -1

\* the decimal digit of a parameter value
Digit(v) == Alphabet[3 + v]

\* A TestSpec with the attributes the list operations read: execute
\* directory, name, file path, analyze flag, parameters, declared
\* dependencies (pattern, expression), np, the recorded runtime, and the
\* answers of the TestFilter checks under the run's configuration
\* (param_ok: checkParameters on a test that is not an analyze test;
\* enabled: platform, options, keywords, TDD, file search, max processors)
TestSpec(xdir, name, filepath, analyze, params, dependencies, runtime, param_ok, enabled, hasdependent) ==
    [xdir |-> xdir, name |-> name, filepath |-> filepath,
     analyze |-> analyze, params |-> params, deps |-> dependencies,
     np |-> 0, runtime |-> runtime, param_ok |-> param_ok,
     enabled |-> enabled, hasdependent |-> hasdependent]

\* indices of the tests of a test map
Idx(specs) == 1..Len(specs)

\* tspecs.keys()
Xdirs(specs) == { specs[i].xdir : i \in Idx(specs) }

\* tspecs.get( xdir, None ) as an index, None (0) when there is no such test
XdirIndex(specs, xdir) ==
    IF \E i \in Idx(specs) : specs[i].xdir = xdir
    THEN CHOOSE i \in Idx(specs) : specs[i].xdir = xdir
    ELSE None

(* ---------------------- statushandler: skip reasons -------------------- *)

\* the reason markSkipByParameter records
PARAM_SKIP == "parameter expression"

\* statushandler.skipTest( tspec )
statushandler_skipTest(sk, i) == sk[i] /= ""

\* statushandler.skipTestByParameter( tspec )
skipTestByParameter(sk, i) == sk[i] = PARAM_SKIP

\* statushandler.skipTestCausingAnalyzeSkip( tspec ): skipped for a reason
\* other than the parameter expression
skipTestCausingAnalyzeSkip(sk, i) == sk[i] /= "" /\ sk[i] /= PARAM_SKIP

\* statushandler.markSkip( tspec, reason )
markSkip(sk, i, reason) == [sk EXCEPT ![i] = reason]

\* statushandler.markSkipByParameter( tspec )
markSkipByParameter(sk, i) == markSkip(sk, i, PARAM_SKIP)

\* count_active( statushandler, tspec_map )
count_active(sk, specs) ==
    Cardinality({ i \in Idx(specs) : ~statushandler_skipTest(sk, i) })

(* ----------------------- ParameterizeAnalyzeGroups --------------------- *)

\* key = ( t.getFilepath(), t.getName() )
GroupKey(t) == << t.filepath, t.name >>

\* the members of a set of indices in increasing order
RECURSIVE IndexSeq(_)
IndexSeq(S) ==
    IF S = {} THEN << >>
    ELSE LET m == CHOOSE x \in S : \A y \in S : x <= y
         IN << m >> \o IndexSeq(S \ {m})

\* ParameterizeAnalyzeGroups.rebuild( tspecs ): every test that is not
\* skipped by parameter is filed under its key, in the order of the map
rebuild(specs, sk) ==
    LET members == { i \in Idx(specs) : ~skipTestByParameter(sk, i) }
    IN [key \in { GroupKey(specs[i]) : i \in members } |->
          IndexSeq({ i \in members : GroupKey(specs[i]) = key })]

\* ParameterizeAnalyzeGroups.getGroup( tspec )
getGroup(gm, specs, i) == gm[GroupKey(specs[i])]

\* ParameterizeAnalyzeGroups.getAnalyzeExecuteDirectory( tspec ): the
\* execute directory of the first other test of the group that is an
\* analyze test, None (the empty path) without one
getAnalyzeExecuteDirectory(gm, specs, i) ==
    LET grpL == getGroup(gm, specs, i)
        hits == { k \in 1..Len(grpL) : grpL[k] /= i /\ specs[grpL[k]].analyze }
    IN IF hits = {} THEN << >>
       ELSE specs[grpL[CHOOSE k \in hits : \A h \in hits : k <= h]].xdir

(* ----------------------- dependencies of a test ------------------------ *)

\* pattrn=None and expr=None of connect_dependency
NoPattern == << >>
NoExpr == ""

\* the to_test argument of connect_dependency: the TestExec of a test of
\* the exec list, or the TestSpec of a test that has none
TestExecOf(i) == [test |-> i, isexec |-> TRUE]
TestSpecOf(i) == [test |-> i, isexec |-> FALSE]

\* the dependency object held in deps: getTestID() is id,
\* getMatchDirectory() is ( pat, dir ), ranOrCouldRun() is ran
TestDependency(id, pat, expr, dir, ran) ==
    [id |-> id, pat |-> pat, expr |-> expr, dir |-> dir, ran |-> ran]

\* TestCase.addDepDirectory( match_pattern, exec_dir ); depdirs is held as
\* the set of its (exec_dir, match_pattern) items
addDepDirectory(dd, match_pattern, exec_dir) ==
    IF exec_dir /= << >>
    THEN { e \in dd : e[1] /= exec_dir } \cup { << exec_dir, match_pattern >> }
    ELSE dd

\* the enumerate loop of addDependency: index of the first entry of deps
\* with the test id, 0 when there is none
RECURSIVE find_dep(_, _, _)
find_dep(dl, id, i) ==
    IF i > Len(dl) THEN 0
    ELSE IF dl[i].id = id THEN i
    ELSE find_dep(dl, id, i + 1)

\* mutation of addDependency: the test id is not looked up, every call
\* appends
addDependency_append(tc, testdep) ==
    [deps |-> Append(tc.deps, testdep),
     depdirs |-> IF testdep.ran
                 THEN addDepDirectory(tc.depdirs, testdep.pat, testdep.dir)
                 ELSE tc.depdirs]

\* TestCase.addDependency( testdep ) on tc = [deps, depdirs]
addDependency(tc, testdep) ==
    LET k == find_dep(tc.deps, testdep.id, 1)
    IN IF k > 0
       THEN [tc EXCEPT !.deps[k] = testdep]
       ELSE [deps |-> Append(tc.deps, testdep),
             depdirs |-> IF testdep.ran
                         THEN addDepDirectory(tc.depdirs, testdep.pat,
                                              testdep.dir)
                         ELSE tc.depdirs]

(* ------------------ TestList: dependency connection -------------------- *)

\* xdir2testexec.get( xdir, None ): the test of the exec list with that
\* execute directory
xdir2testexec(xdir) ==
    LET i == XdirIndex(tspecs, xdir)
    IN IF i /= None /\ ~statushandler_skipTest(skip, i) THEN i ELSE None

\* mutation of connect_dependency: setHasDependent() is left out
connect_dependency_noflag(st, from_test, to_test, pattrn, expr) ==
    LET dep == TestDependency(to_test.test, pattrn, expr,
                              tspecs[to_test.test].xdir,
                              ~statushandler_skipTest(skip, to_test.test))
        tc == addDependency([deps |-> st.tdeps[from_test],
                             depdirs |-> st.depdirs[from_test]], dep)
    IN [st EXCEPT !.tdeps[from_test] = tc.deps,
                  !.depdirs[from_test] = tc.depdirs]

\* connect_dependency( from_test, to_test, pattrn, expr ) on
\* st = [tdeps, depdirs, has_dependent]; from_test is a test of the exec
\* list
connect_dependency(st, from_test, to_test, pattrn, expr) ==
    LET dep == TestDependency(to_test.test, pattrn, expr,
                              tspecs[to_test.test].xdir,
                              ~statushandler_skipTest(skip, to_test.test))
        tc == addDependency([deps |-> st.tdeps[from_test],
                             depdirs |-> st.depdirs[from_test]], dep)
    IN [st EXCEPT !.tdeps[from_test] = tc.deps,
                  !.depdirs[from_test] = tc.depdirs,
                  !.has_dependent[to_test.test] =
                      IF to_test.isexec THEN TRUE ELSE @]

\* "for gt in grpL: if not gt.isAnalyze(): connect_dependency( xt, gt )",
\* gt the TestSpec held by the group
RECURSIVE connect_group(_, _, _, _)
connect_group(st, xt, grpL, k) ==
    IF k > Len(grpL) THEN st
    ELSE connect_group(IF ~tspecs[grpL[k]].analyze
                       THEN connect_dependency(st, xt, TestSpecOf(grpL[k]),
                                               NoPattern, NoExpr)
                       ELSE st,
                       xt, grpL, k + 1)

\* mutation of add_analyze_dependencies: the edges point from the
\* parameterized test to its analyze test
RECURSIVE add_analyze_dependencies_reversed(_, _)
add_analyze_dependencies_reversed(st, L) ==
    IF L = << >> THEN st
    ELSE LET xt == Head(L)
             analyze_xdir == getAnalyzeExecuteDirectory(groupmap, tspecs, xt)
             analyze_xt == xdir2testexec(analyze_xdir)
         IN add_analyze_dependencies_reversed(
                IF analyze_xdir /= << >> /\ analyze_xt /= None
                THEN connect_dependency(st, xt, TestExecOf(analyze_xt),
                                        NoPattern, NoExpr)
                ELSE st,
                Tail(L))

\* TestList._add_analyze_dependencies over L = getTestExecList()
RECURSIVE add_analyze_dependencies(_, _)
add_analyze_dependencies(st, L) ==
    IF L = << >> THEN st
    ELSE LET xt == Head(L)
             analyze_xdir == getAnalyzeExecuteDirectory(groupmap, tspecs, xt)
             analyze_xt == xdir2testexec(analyze_xdir)
         IN add_analyze_dependencies(
                IF analyze_xdir /= << >>
                THEN IF analyze_xt /= None
                     THEN connect_dependency(st, analyze_xt, TestExecOf(xt),
                                             NoPattern, NoExpr)
                     ELSE st
                ELSE IF tspecs[xt].analyze
                THEN connect_group(st, xt, getGroup(groupmap, tspecs, xt), 1)
                ELSE st,
                Tail(L))

\* "for dep_xdir in depL": the matched tests, each as its TestExec when it
\* is in the exec list and as its TestSpec when it is not.  depL is a set
\* of keys of tspecs, so the lookup never gives None; the set is walked in
\* the order of the test map
RECURSIVE connect_matches(_, _, _, _, _)
connect_matches(st, xt, depL, dep_pat, expr) ==
    IF depL = << >> THEN st
    ELSE LET i == Head(depL)
             dep_obj == IF xdir2testexec(tspecs[i].xdir) /= None
                        THEN TestExecOf(i)
                        ELSE TestSpecOf(i)
         IN connect_matches(connect_dependency(st, xt, dep_obj, dep_pat, expr),
                            xt, Tail(depL), dep_pat, expr)

\* "for dep_pat,expr in xt.atest.getDependencies()"
RECURSIVE connect_patterns(_, _, _)
connect_patterns(st, xt, dependencies) ==
    IF dependencies = << >> THEN st
    ELSE LET dep_pat == Head(dependencies)[1]
             expr == Head(dependencies)[2]
             depL == find_tests_by_execute_directory_match(
                         tspecs[xt].xdir, dep_pat, Xdirs(tspecs))
             matched == IndexSeq({ i \in Idx(tspecs) : tspecs[i].xdir \in depL })
         IN connect_patterns(connect_matches(st, xt, matched, dep_pat, expr),
                             xt, Tail(dependencies))

\* TestList._add_general_dependencies over L = getTestExecList()
RECURSIVE add_general_dependencies(_, _)
add_general_dependencies(st, L) ==
    IF L = << >> THEN st
    ELSE add_general_dependencies(
             connect_patterns(st, Head(L), tspecs[Head(L)].deps), Tail(L))

\* runtime as the sort of sortTestExecList reads it: None counts as 0
RuntimeOrZero(t) == IF t.runtime = NoRuntime THEN 0 ELSE t.runtime

\* the scheduler holds no tests: the test list is still being built
SchedIdle ==
    /\ tlist = << >>
    /\ deps = << >>
    /\ status = << >>
    /\ created = FALSE
    /\ backlog = << >>
    /\ waiting = {}
    /\ started = {}
    /\ stopped = {}
    /\ remaining = {}
    /\ inuse = 0
    /\ resobj = << >>
    /\ ret = [op |-> "init", arg |-> None, val |-> None]
    /\ xtlist = << >>

\* TestList.createTestExecs on tspecs: _createTestExecList makes a TestExec
\* for each test that is not skipped (carrying over a stored 'hasdependent'
\* attribute), files it under its np, sorts each list by runtime (tests of
\* equal runtime in no order of the program's making), and connects the
\* analyze and the general dependencies in the order of getTestExecList()
TestList_createTestExecs ==
    /\ ~created
    /\ tspecs /= << >>
    /\ created' = TRUE
    /\ LET active == { i \in Idx(tspecs) : ~statushandler_skipTest(skip, i) }
           keys == { tspecs[i].np : i \in active }
       IN \E order \in Orderings(active) :
            LET listOf(n) == SelectSeq(order, LAMBDA i : tspecs[i].np = n)
                L == order
                st0 == [tdeps |-> [i \in Idx(tspecs) |-> << >>],
                        depdirs |-> [i \in Idx(tspecs) |-> {}],
                        has_dependent |->
                            [i \in Idx(tspecs) |->
                                i \in active /\ tspecs[i].hasdependent]]
                st1 == add_analyze_dependencies(st0, L)
                st2 == add_general_dependencies(st1, L)
            IN /\ \A n \in keys : \A a, b \in 1..Len(listOf(n)) :
                     a < b => RuntimeOrZero(tspecs[listOf(n)[a]])
                                >= RuntimeOrZero(tspecs[listOf(n)[b]])
               /\ \A a, b \in 1..Len(order) :
                     a < b => tspecs[order[a]].np <= tspecs[order[b]].np
               /\ xtlist' = [n \in keys |-> listOf(n)]
               /\ tdeps' = st2.tdeps
               /\ depdirs' = st2.depdirs
               /\ has_dependent' = st2.has_dependent
    /\ ret' = [op |-> "createTestExecs", arg |-> None, val |-> None]
    /\ UNCHANGED << runnervars, toolvars, tlist, deps, status, backlog, waiting, started, stopped,
                    remaining, inuse, resobj >>
    /\ UNCHANGED << tspecs, skip, groupmap, rtconfig, pset, raised, passes,
                    numactive, addlog >>

(* -------------------- test maps for dependency connection -------------- *)

\* a test without parameters
PlainTest(xdir, name, filepath, dependencies, hasdependent) ==
    TestSpec(xdir, name, filepath, FALSE, << >>, dependencies, NoRuntime,
             TRUE, TRUE, hasdependent)

\* the parameterized test p=v of file a/t.vvt, execute directory a/t.p=v
ParamTest(v, runtime, param_ok, enabled) ==
    TestSpec(<< "a", "/", "t", ".", "p", "=", Digit(v) >>, "t", "a/t.vvt",
             FALSE, [p |-> v], << >>, runtime, param_ok, enabled, FALSE)

\* the analyze test of file a/t.vvt, execute directory a/t
AnalyzeTest(runtime, enabled) ==
    TestSpec(<< "a", "/", "t" >>, "t", "a/t.vvt", TRUE, << >>, << >>,
             runtime, TRUE, enabled, FALSE)

\* the ParameterSet a test is parsed with: an analyze test holds the
\* parameter values of its file, p = 1 .. NumParams
ParsedParameterSet(t) ==
    IF t.analyze
    THEN addParameter(ParameterSet_init, "p", [v \in 1..NumParams |-> v])
    ELSE ParameterSet_init

\* tests a dependency pattern may match: a/b, a/g/b, b, c/b (the last
\* with a 'hasdependent' attribute stored by an earlier run)
PathTests ==
    << PlainTest(<< "a", "/", "b" >>, "b", "a/b.vvt", << >>, FALSE),
       PlainTest(<< "a", "/", "g", "/", "b" >>, "b", "a/g/b.vvt", << >>, FALSE),
       PlainTest(<< "b" >>, "b", "b.vvt", << >>, FALSE),
       PlainTest(<< "c", "/", "b" >>, "b", "c/b.vvt", << >>, TRUE) >>

\* the dependency patterns the dependent test a/x may declare
Patterns ==
    { << "b" >>, << "g", "/", "b" >>, << "*" >>, << "x" >>, << "*", "b" >>,
      << "a", "/", "b" >>, << "q" >>, << ".", ".", "/", "a", "/", "b" >> }

\* a test map of some of PathTests and the dependent test a/x
PathUniverse(opt, pattern) ==
    [k \in 1..Cardinality(opt) |-> PathTests[IndexSeq(opt)[k]]]
    \o << PlainTest(<< "a", "/", "x" >>, "x", "a/x.vvt",
                    << << pattern, NoExpr >> >>, FALSE) >>

\* the test map of one parameterize/analyze file
GroupUniverse ==
    [v \in 1..NumParams |-> ParamTest(v, NoRuntime, TRUE, TRUE)]
    \o << AnalyzeTest(NoRuntime, TRUE) >>

DependUniverses ==
    { PathUniverse(opt, pattern) :
        opt \in SUBSET (1..Len(PathTests)), pattern \in Patterns }
    \cup { GroupUniverse }

\* the skip reasons filtering may have left on a test map: the parameter
\* expression on parameterized tests only, the analyze reason on analyze
\* tests only
SkipChoices(specs) ==
    { sk \in [Idx(specs) ->
                { "", PARAM_SKIP, "filtered out", "analyze dependency skipped" }] :
        \A i \in Idx(specs) :
          /\ sk[i] = PARAM_SKIP =>
                 ~specs[i].analyze /\ DOMAIN specs[i].params /= {}
          /\ sk[i] = "analyze dependency skipped" => specs[i].analyze }

\* a filtered test map, the groups rebuilt, before createTestExecs
InitDepend ==
    /\ SchedIdle
    /\ RunnerIdle
    /\ ToolsIdle
    /\ tspecs \in DependUniverses
    /\ skip \in SkipChoices(tspecs)
    /\ groupmap = rebuild(tspecs, skip)
    /\ rtconfig = << >>
    /\ pset = [i \in Idx(tspecs) |-> ParsedParameterSet(tspecs[i])]
    /\ raised = ""
    /\ passes = 0
    /\ numactive = count_active(skip, tspecs)
    /\ tdeps = [i \in Idx(tspecs) |-> << >>]
    /\ depdirs = [i \in Idx(tspecs) |-> {}]
    /\ has_dependent = [i \in Idx(tspecs) |-> FALSE]
    /\ addlog = << >>

NextDepend == TestList_createTestExecs

SpecDepend == InitDepend /\ [][NextDepend]_vars

(* ---------------------- dependency connection: claims ------------------ *)

\* the tests of the exec list
InExecList(i) == created /\ i \in Idx(tspecs) /\ ~statushandler_skipTest(skip, i)

\* the dependees of test i
Dependees(i) == { tdeps[i][k].id : k \in 1..Len(tdeps[i]) }

\* the execute directories of the dependees test i got from a pattern
MatchedBy(i, pattern) ==
    { tspecs[tdeps[i][k].id].xdir :
        k \in { k \in 1..Len(tdeps[i]) : tdeps[i][k].pat = pattern } }

\* the known execute directories matched at priority k by pattern P of the
\* test at xdir: dirname(xdir)/P (as a path), dirname(xdir)/*/P, P, *P
TierMatches(k, xdir, P) ==
    LET d == dirname(xdir)
        base == IF d = << >> \/ d = << "." >> THEN << >> ELSE d \o << "/" >>
        pat == CASE k = 1 -> normpath(base \o P)
                 [] k = 2 -> base \o << "*", "/" >> \o P
                 [] k = 3 -> P
                 [] k = 4 -> << "*" >> \o P
    IN { x \in Xdirs(tspecs) : fnmatch(x, pat) }

\* the matches of the first priority that has any
FirstTier(xdir, P) ==
    IF \E k \in 1..4 : TierMatches(k, xdir, P) /= {}
    THEN TierMatches(CHOOSE k \in 1..4 :
                        /\ TierMatches(k, xdir, P) /= {}
                        /\ \A j \in 1..(k - 1) : TierMatches(j, xdir, P) = {},
                     xdir, P)
    ELSE {}

C12_NoSelfEdge ==
    \A i \in Idx(tspecs) : i \notin Dependees(i)

\* C13: after dependency connection every analyze test of the exec list has
\* an edge to every non-skipped parameterized test of its (file path, name)
\* group.
C13_AnalyzeReachesSiblings ==
    created =>
        \A a \in Idx(tspecs), s \in Idx(tspecs) :
            ( /\ InExecList(a) /\ tspecs[a].analyze
              /\ ~tspecs[s].analyze
              /\ ~statushandler_skipTest(skip, s)
              /\ GroupKey(tspecs[s]) = GroupKey(tspecs[a]) )
            => s \in Dependees(a)

\* an analyze test was connected while two of its parameterized tests are
\* active and one is skipped
C13_Witness ==
    /\ created
    /\ \E a \in Idx(tspecs) :
          /\ InExecList(a) /\ tspecs[a].analyze
          /\ Cardinality({ s \in Idx(tspecs) :
                             /\ ~tspecs[s].analyze
                             /\ GroupKey(tspecs[s]) = GroupKey(tspecs[a])
                             /\ ~statushandler_skipTest(skip, s) }) >= 2
          /\ \E s \in Idx(tspecs) :
                /\ GroupKey(tspecs[s]) = GroupKey(tspecs[a])
                /\ statushandler_skipTest(skip, s)

\* C14 (as claimed): after dependency connection every test that is the
\* target of an edge has has_dependent set.
C14_Original ==
    created =>
        \A i \in Idx(tspecs) : \A d \in Dependees(i) : has_dependent[d]

\* C14 (amended): after dependency connection every test of the exec list
\* that is the target of an edge has has_dependent set; a skipped dependee
\* is connected as its TestSpec and carries no flag.
C14_Amended ==
    created =>
        \A i \in Idx(tspecs) : \A d \in Dependees(i) :
            InExecList(d) => has_dependent[d]

\* a test of the exec list is the target of an edge declared by pattern
C14_Witness ==
    /\ created
    /\ \E i \in Idx(tspecs) : \E k \in 1..Len(tdeps[i]) :
          /\ tdeps[i][k].pat /= NoPattern
          /\ tdeps[i][k].id /= i
          /\ InExecList(tdeps[i][k].id)
          /\ ~tspecs[tdeps[i][k].id].hasdependent

(* ------------------- TestCase.addDependency call sequences ------------- *)

\* distinct dependee test ids offered to addDependency
NumDepIds == 2

\* addDependency calls made on the TestCase
MaxAddCalls == 3

\* the TestDependency objects a caller may pass: a dependee test, the
\* pattern that matched it, and whether the dependee ran or could run
DepObjects ==
    { TestDependency(id, pat, NoExpr, << "a", "/", Digit(id) >>, ran) :
        id \in 1..NumDepIds, pat \in { << "b" >>, << "*" >> },
        ran \in BOOLEAN }

\* TestCase.__init__: one TestCase, deps = [], depdirs = {}
InitAddDep ==
    /\ SchedIdle
    /\ RunnerIdle
    /\ ToolsIdle
    /\ tspecs = << >>
    /\ skip = << >>
    /\ groupmap = << >>
    /\ rtconfig = << >>
    /\ pset = << >>
    /\ raised = ""
    /\ passes = 0
    /\ numactive = 0
    /\ tdeps = << << >> >>
    /\ depdirs = << {} >>
    /\ has_dependent = << FALSE >>
    /\ addlog = << >>

\* a call tcase.addDependency( testdep )
TestCase_addDependency(testdep) ==
    /\ Len(addlog) < MaxAddCalls
    /\ LET tc == addDependency([deps |-> tdeps[1], depdirs |-> depdirs[1]],
                               testdep)
       IN /\ tdeps' = [tdeps EXCEPT ![1] = tc.deps]
          /\ depdirs' = [depdirs EXCEPT ![1] = tc.depdirs]
    /\ addlog' = Append(addlog, testdep)
    /\ UNCHANGED << runnervars, toolvars, schedvars, tspecs, skip, groupmap, rtconfig, pset, raised,
                    passes, numactive, has_dependent >>

\* a call tcase.setHasDependent()
TestCase_setHasDependent ==
    /\ ~has_dependent[1]
    /\ has_dependent' = [has_dependent EXCEPT ![1] = TRUE]
    /\ UNCHANGED << runnervars, toolvars, schedvars, tspecs, skip, groupmap, rtconfig, pset, raised,
                    passes, numactive, tdeps, depdirs, addlog >>

NextAddDep ==
    \/ \E testdep \in DepObjects : TestCase_addDependency(testdep)
    \/ TestCase_setHasDependent

SpecAddDep == InitAddDep /\ [][NextAddDep]_vars

\* the calls of addlog that passed test id
CallsWith(id) == { n \in 1..Len(addlog) : addlog[n].id = id }

\* C15: after any sequence of addDependency calls deps holds one
\* TestDependency per dependee test id that was added, the one added last
\* for that id, at the place the id was first added; a re-add leaves
\* numDependencies() as it was.
C15_OneEdgePerDependee ==
    LET dl == tdeps[1]
        ids == { addlog[n].id : n \in 1..Len(addlog) }
        first(id) == CHOOSE n \in CallsWith(id) : \A m \in CallsWith(id) : n <= m
        last(id) == CHOOSE n \in CallsWith(id) : \A m \in CallsWith(id) : m <= n
    IN /\ \A j \in 1..Len(dl), k \in 1..Len(dl) : dl[j].id = dl[k].id => j = k
       /\ { dl[k].id : k \in 1..Len(dl) } = ids
       /\ Len(dl) = Cardinality(ids)
       /\ \A k \in 1..Len(dl) : dl[k] = addlog[last(dl[k].id)]
       /\ \A j \in 1..Len(dl), k \in 1..Len(dl) :
              j < k => first(dl[j].id) < first(dl[k].id)

\* a dependee was added, a second dependee was added, and the first was
\* added again with another TestDependency object
C15_Witness ==
    /\ Len(addlog) = 3
    /\ addlog[1].id = addlog[3].id
    /\ addlog[1] /= addlog[3]
    /\ addlog[2].id /= addlog[1].id
    /\ Len(tdeps[1]) = 2

(* --------------------------- permanent filter -------------------------- *)

\* rtconfig.getAttr( 'runtime_sum', None ) = None, and no runtime range
NoLimit == -1

\* the skip reasons of the permanent filter
FILTERED_OUT == "filtered out"
CUMMULATIVE_SKIP == "cummulative runtime threshhold"
ANALYZE_SKIP == "analyze dependency skipped"

\* TestFilter.checkParameters( tspec )
checkParameters(t) == IF t.analyze THEN TRUE ELSE t.param_ok

\* rtconfig.evaluate_runtime( tm ): tm is within the configured range
evaluate_runtime(cfg, tm) == cfg.runtime_max = NoLimit \/ tm <= cfg.runtime_max

\* TestFilter.checkRuntime( tspec )
checkRuntime(cfg, t) ==
    IF t.runtime /= NoRuntime /\ ~evaluate_runtime(cfg, t.runtime)
    THEN FALSE
    ELSE TRUE

\* "(tm,xdir,t) < (tm,xdir,t)" of tL.sort(): by runtime (None as 0), then
\* by execute directory
RuntimeTupleLess(specs, i, j) ==
    \/ RuntimeOrZero(specs[i]) < RuntimeOrZero(specs[j])
    \/ /\ RuntimeOrZero(specs[i]) = RuntimeOrZero(specs[j])
       /\ StrLess(specs[i].xdir, specs[j].xdir)

\* tL after tL.sort(): the tests of the map in ascending tuple order
RECURSIVE sorted_by_runtime(_, _)
sorted_by_runtime(specs, S) ==
    IF S = {} THEN << >>
    ELSE LET m == CHOOSE i \in S :
                     \A j \in S \ {i} : RuntimeTupleLess(specs, i, j)
         IN << m >> \o sorted_by_runtime(specs, S \ {m})

\* mutation of accumulate_runtime: "tsum >= rtsum" for "tsum > rtsum"
RECURSIVE accumulate_runtime_ge(_, _, _, _, _, _)
accumulate_runtime_ge(sk, specs, tL, i, tsum, rtsum) ==
    IF i > Len(tL) THEN sk
    ELSE LET t == tL[i]
             tm == RuntimeOrZero(specs[t])
         IN IF ~statushandler_skipTest(sk, t)
            THEN accumulate_runtime_ge(
                     IF tsum + tm >= rtsum
                     THEN markSkip(sk, t, CUMMULATIVE_SKIP)
                     ELSE sk,
                     specs, tL, i + 1, tsum + tm, rtsum)
            ELSE accumulate_runtime_ge(sk, specs, tL, i + 1, tsum, rtsum)

\* mutation of accumulate_runtime: the walk ends at the first test it marks
RECURSIVE accumulate_runtime_break(_, _, _, _, _, _)
accumulate_runtime_break(sk, specs, tL, i, tsum, rtsum) ==
    IF i > Len(tL) THEN sk
    ELSE LET t == tL[i]
             tm == RuntimeOrZero(specs[t])
         IN IF ~statushandler_skipTest(sk, t)
            THEN IF tsum + tm > rtsum
                 THEN markSkip(sk, t, CUMMULATIVE_SKIP)
                 ELSE accumulate_runtime_break(sk, specs, tL, i + 1,
                                               tsum + tm, rtsum)
            ELSE accumulate_runtime_break(sk, specs, tL, i + 1, tsum, rtsum)

\* mutation of accumulate_runtime: a test is marked when the sum before it
\* is over the limit
RECURSIVE accumulate_runtime_after(_, _, _, _, _, _)
accumulate_runtime_after(sk, specs, tL, i, tsum, rtsum) ==
    IF i > Len(tL) THEN sk
    ELSE LET t == tL[i]
             tm == RuntimeOrZero(specs[t])
         IN IF ~statushandler_skipTest(sk, t)
            THEN accumulate_runtime_after(
                     IF tsum > rtsum
                     THEN markSkip(sk, t, CUMMULATIVE_SKIP)
                     ELSE sk,
                     specs, tL, i + 1, tsum + tm, rtsum)
            ELSE accumulate_runtime_after(sk, specs, tL, i + 1, tsum, rtsum)

\* the while loop of filter_by_cummulative_runtime: the runtime of every
\* test that is not skipped is added to tsum, and the test is marked once
\* tsum is over rtsum
RECURSIVE accumulate_runtime(_, _, _, _, _, _)
accumulate_runtime(sk, specs, tL, i, tsum, rtsum) ==
    IF i > Len(tL) THEN sk
    ELSE LET t == tL[i]
             tm == RuntimeOrZero(specs[t])
         IN IF ~statushandler_skipTest(sk, t)
            THEN accumulate_runtime(
                     IF tsum + tm > rtsum
                     THEN markSkip(sk, t, CUMMULATIVE_SKIP)
                     ELSE sk,
                     specs, tL, i + 1, tsum + tm, rtsum)
            ELSE accumulate_runtime(sk, specs, tL, i + 1, tsum, rtsum)

\* filter_by_cummulative_runtime( statushandler, activedict, rtsum )
filter_by_cummulative_runtime(sk, specs, rtsum) ==
    accumulate_runtime(sk, specs, sorted_by_runtime(specs, Idx(specs)),
                       1, 0, rtsum)

\* the function evalfunc of filter_analyze_tests: paramD is one of paramsets
evalfunc(paramsets) == [kind |-> "function", accepts |-> paramsets]

\* mutation of filter_group: the analyze test is never marked, its
\* parameter set is filtered whatever happened to the group
filter_group_noskip(st, specs, tspecL) ==
    LET analyzes == { k \in 1..Len(tspecL) : specs[tspecL[k]].analyze }
        analyze == tspecL[CHOOSE k \in analyzes : \A h \in analyzes : h <= k]
        paramsets == { specs[tspecL[k]].params :
                         k \in { k \in 1..Len(tspecL) :
                                   /\ ~specs[tspecL[k]].analyze
                                   /\ ~skipTestCausingAnalyzeSkip(st.skip, tspecL[k]) } }
    IN IF analyzes = {} THEN st
       ELSE LET res == applyParamFilter(st.pset[analyze], evalfunc(paramsets))
            IN [st EXCEPT !.pset[analyze] = res.pset, !.raised = res.raised]

\* the body of the group loop of filter_analyze_tests on
\* st = [skip, pset, raised]
filter_group(st, specs, tspecL) ==
    LET analyzes == { k \in 1..Len(tspecL) : specs[tspecL[k]].analyze }
        analyze == tspecL[CHOOSE k \in analyzes : \A h \in analyzes : h <= k]
        skip_analyze == \E k \in 1..Len(tspecL) :
                           /\ ~specs[tspecL[k]].analyze
                           /\ skipTestCausingAnalyzeSkip(st.skip, tspecL[k])
        paramsets == { specs[tspecL[k]].params :
                         k \in { k \in 1..Len(tspecL) :
                                   /\ ~specs[tspecL[k]].analyze
                                   /\ ~skipTestCausingAnalyzeSkip(st.skip, tspecL[k]) } }
    IN IF analyzes = {} THEN st
       ELSE IF skip_analyze
       THEN [st EXCEPT !.skip = markSkip(st.skip, analyze, ANALYZE_SKIP)]
       ELSE LET res == applyParamFilter(st.pset[analyze], evalfunc(paramsets))
            IN [st EXCEPT !.pset[analyze] = res.pset, !.raised = res.raised]

\* filter_analyze_tests( statushandler, groups ): the groups in the order
\* of groupmap.items(), up to the first one that raises
RECURSIVE filter_groups(_, _, _, _)
filter_groups(st, specs, gm, keys) ==
    IF keys = << >> \/ st.raised /= "" THEN st
    ELSE filter_groups(filter_group(st, specs, gm[Head(keys)]), specs, gm,
                       Tail(keys))

\* groupmap.items(): the keys in the order rebuild made them
GroupKeys(gm, specs) ==
    LET firsts == { gm[key][1] : key \in DOMAIN gm }
    IN [k \in 1..Cardinality(firsts) |-> GroupKey(specs[IndexSeq(firsts)[k]])]

filter_analyze_tests(st, specs, gm) ==
    filter_groups(st, specs, gm, GroupKeys(gm, specs))

\* the loop of apply_permanent_filters over tspec_map.items()
permanent_checks(sk, specs, cfg) ==
    [i \in Idx(specs) |->
        IF cfg.include_all THEN sk[i]
        ELSE IF ~checkParameters(specs[i]) THEN PARAM_SKIP
        ELSE IF ~(specs[i].enabled /\ checkRuntime(cfg, specs[i]))
        THEN FILTERED_OUT
        ELSE sk[i]]

\* apply_permanent_filters( statushandler, tspec_map, groups, rtconfig ):
\* [skip, pset, raised, groupmap] after the call
apply_permanent_filters(sk, ps, specs, cfg) ==
    LET sk1 == permanent_checks(sk, specs, cfg)
        sk2 == IF ~cfg.include_all /\ cfg.runtime_sum /= NoLimit
               THEN filter_by_cummulative_runtime(sk1, specs, cfg.runtime_sum)
               ELSE sk1
        gm == rebuild(specs, sk2)
        st == filter_analyze_tests([skip |-> sk2, pset |-> ps, raised |-> ""],
                                   specs, gm)
    IN [skip |-> st.skip, pset |-> st.pset, raised |-> st.raised,
        groupmap |-> gm]

\* calls of applyPermanentFilters on one test map
MaxPasses == 2

\* TestList.applyPermanentFilters: the groups are rebuilt, the permanent
\* filters applied and the active tests counted; an exception leaves the
\* marks made before it and ends the run
TestList_applyPermanentFilters ==
    /\ raised = ""
    /\ passes < MaxPasses
    /\ tspecs /= << >>
    /\ ~created
    /\ LET r == apply_permanent_filters(skip, pset, tspecs, rtconfig)
       IN /\ skip' = r.skip
          /\ pset' = r.pset
          /\ groupmap' = r.groupmap
          /\ raised' = r.raised
          /\ numactive' = IF r.raised = "" THEN count_active(r.skip, tspecs)
                          ELSE numactive
          /\ passes' = IF r.raised = "" THEN passes + 1 ELSE passes
    /\ UNCHANGED << runnervars, toolvars, schedvars, tspecs, rtconfig, tdeps, depdirs,
                    has_dependent, addlog >>

(* ------------------------ test maps for filtering ---------------------- *)

\* recorded runtimes of a test: none, 0, or 10, 20, 40 seconds
RuntimeValues == { NoRuntime, 0, 10, 20, 40 }

\* the answers (param_ok, enabled) of the per-test checks: kept, excluded
\* by the parameter expression, excluded by another check
Dispositions == { << TRUE, TRUE >>, << FALSE, TRUE >>, << TRUE, FALSE >> }

\* the analyze test of the file: none, or one with or without a runtime,
\* or one the per-test checks exclude
AnalyzeOptions ==
    { << >>, << AnalyzeTest(NoRuntime, TRUE) >>, << AnalyzeTest(10, TRUE) >>,
      << AnalyzeTest(NoRuntime, FALSE) >> }

\* runtimes of the parameterized tests by parameter value: doubling from
\* 10 s, the same in descending order, and none recorded
RECURSIVE Doubled(_)
Doubled(v) == IF v = 1 THEN 10 ELSE 2 * Doubled(v - 1)

RuntimeVectors ==
    { [v \in 1..NumParams |-> Doubled(v)],
      [v \in 1..NumParams |-> Doubled(NumParams + 1 - v)],
      [v \in 1..NumParams |-> NoRuntime] }

\* the test maps of one test file: every mix of runtimes on tests the
\* checks keep, and every mix of check answers on a few runtime vectors
FilterUniverses ==
    { [v \in 1..NumParams |-> ParamTest(v, rt[v], TRUE, TRUE)] \o an :
        rt \in [1..NumParams -> RuntimeValues], an \in AnalyzeOptions }
    \cup
    { [v \in 1..NumParams |-> ParamTest(v, rt[v], dp[v][1], dp[v][2])] \o an :
        rt \in RuntimeVectors, dp \in [1..NumParams -> Dispositions],
        an \in AnalyzeOptions }

\* the run's configuration: include_all, the cutoff runtime_sum (none, 0 or
\* 25 s) and the largest runtime the runtime range admits (none or 30 s)
RtConfigs ==
    { [include_all |-> FALSE, runtime_sum |-> rs, runtime_max |-> rm] :
        rs \in { NoLimit, 0, 25 }, rm \in { NoLimit, 30 } }
    \cup { [include_all |-> TRUE, runtime_sum |-> 25, runtime_max |-> NoLimit] }

\* a scanned test map: nothing is skipped, no groups are built yet
InitFilter ==
    /\ SchedIdle
    /\ RunnerIdle
    /\ ToolsIdle
    /\ tspecs \in FilterUniverses
    /\ skip = [i \in Idx(tspecs) |-> ""]
    /\ groupmap = << >>
    /\ rtconfig \in RtConfigs
    /\ pset = [i \in Idx(tspecs) |-> ParsedParameterSet(tspecs[i])]
    /\ raised = ""
    /\ passes = 0
    /\ numactive = 0
    /\ tdeps = [i \in Idx(tspecs) |-> << >>]
    /\ depdirs = [i \in Idx(tspecs) |-> {}]
    /\ has_dependent = [i \in Idx(tspecs) |-> FALSE]
    /\ addlog = << >>

NextFilter == TestList_applyPermanentFilters

SpecFilter == InitFilter /\ [][NextFilter]_vars

(* ------------------------ permanent filter: claims --------------------- *)

\* the permanent filter has run on the test map, to its end or to an
\* exception
Filtered == passes > 0 \/ raised /= ""

\* the cumulative-runtime cutoff is part of the permanent filter
CutoffApplies == ~rtconfig.include_all /\ rtconfig.runtime_sum /= NoLimit

\* the tests the per-test checks keep: those not already skipped when the
\* cutoff walk starts
Candidates ==
    { i \in Idx(tspecs) :
        /\ checkParameters(tspecs[i])
        /\ tspecs[i].enabled
        /\ checkRuntime(rtconfig, tspecs[i]) }

RECURSIVE SumRuntime(_)
SumRuntime(S) ==
    IF S = {} THEN 0
    ELSE LET i == CHOOSE x \in S : TRUE
         IN RuntimeOrZero(tspecs[i]) + SumRuntime(S \ {i})

\* the running sum when the walk reaches test i, and after it added i
SumBefore(i) ==
    SumRuntime({ j \in Candidates : RuntimeTupleLess(tspecs, j, i) })

SumThrough(i) == SumBefore(i) + RuntimeOrZero(tspecs[i])

\* three tests with estimates 10, 20 and 40 s and a cutoff of 25 s
IsCutoffScenario ==
    /\ Len(tspecs) = 3
    /\ Candidates = Idx(tspecs)
    /\ { tspecs[i].runtime : i \in Idx(tspecs) } = { 10, 20, 40 }
    /\ CutoffApplies
    /\ rtconfig.runtime_sum = 25

\* C16 (as claimed): the cutoff skips only the tests reached after the
\* running sum has exceeded runtime_sum; with estimates 10, 20, 40 and
\* cutoff 25 the 10 s and 20 s tests stay active and the 40 s test is
\* skipped.
C16_Original ==
    (Filtered /\ CutoffApplies) =>
        /\ \A i \in Candidates : ~tspecs[i].analyze =>
              (skip[i] = CUMMULATIVE_SKIP <=> SumBefore(i) > rtconfig.runtime_sum)
        /\ IsCutoffScenario =>
              \A i \in Idx(tspecs) :
                  skip[i] = IF tspecs[i].runtime = 40 THEN CUMMULATIVE_SKIP ELSE ""

\* C16 (amended): tests are walked in ascending runtime order and a test is
\* skipped exactly when the running sum including its own runtime exceeds
\* runtime_sum; with estimates 10, 20, 40 and cutoff 25 only the 10 s test
\* stays active, the 20 s and the 40 s test are skipped.
C16_Amended ==
    (Filtered /\ CutoffApplies) =>
        /\ \A i \in Candidates :
              /\ skip[i] = CUMMULATIVE_SKIP => SumThrough(i) > rtconfig.runtime_sum
              /\ SumThrough(i) > rtconfig.runtime_sum =>
                    \/ skip[i] = CUMMULATIVE_SKIP
                    \/ tspecs[i].analyze /\ skip[i] = ANALYZE_SKIP
        /\ IsCutoffScenario =>
              \A i \in Idx(tspecs) :
                  skip[i] = IF tspecs[i].runtime = 10 THEN "" ELSE CUMMULATIVE_SKIP

\* the scenario was filtered, its tests not in runtime order in the map
C16_Witness ==
    /\ Filtered
    /\ IsCutoffScenario
    /\ tspecs[1].runtime = 40

\* C17 (as claimed): with a cutoff of 0 every test that was not already
\* skipped is skipped, whatever its runtime estimate.
C17_Original ==
    (Filtered /\ CutoffApplies /\ rtconfig.runtime_sum = 0) =>
        \A i \in Candidates : skip[i] /= ""

\* C17 (amended): with a cutoff of 0 the cutoff filter skips every test
\* that was not already skipped and has a positive runtime estimate; a
\* test with runtime 0 or no recorded runtime is not skipped by it.
C17_Amended ==
    (Filtered /\ CutoffApplies /\ rtconfig.runtime_sum = 0) =>
        \A i \in Candidates :
            /\ RuntimeOrZero(tspecs[i]) > 0 =>
                  \/ skip[i] = CUMMULATIVE_SKIP
                  \/ tspecs[i].analyze /\ skip[i] = ANALYZE_SKIP
            /\ RuntimeOrZero(tspecs[i]) = 0 =>
                  /\ skip[i] /= CUMMULATIVE_SKIP
                  /\ ~tspecs[i].analyze => skip[i] = ""

\* a cutoff of 0 ran over a test of runtime 0, a test without a recorded
\* runtime and a test of positive runtime
C17_Witness ==
    /\ Filtered /\ CutoffApplies /\ rtconfig.runtime_sum = 0
    /\ \E i \in Candidates : tspecs[i].runtime = 0 /\ skip[i] = ""
    /\ \E i \in Candidates : tspecs[i].runtime = NoRuntime /\ skip[i] = ""
    /\ \E i \in Candidates : tspecs[i].runtime > 0 /\ skip[i] = CUMMULATIVE_SKIP

\* C18: applying the permanent filter again to the same test map under the
\* same configuration leaves every test's skip reason as it was.
C18_SecondPassNoOp == [][passes >= 1 => skip' = skip]_vars

\* the filter ran twice on a map where it skipped by parameter, by the
\* cutoff and by the analyze rule
C18_Witness ==
    /\ passes = 2
    /\ \E i \in Idx(tspecs) : skip[i] = PARAM_SKIP
    /\ \E i \in Idx(tspecs) : skip[i] = CUMMULATIVE_SKIP
    /\ \E i \in Idx(tspecs) : skip[i] = ANALYZE_SKIP
    /\ \E i \in Idx(tspecs) : skip[i] = ""

\* the parameterized tests of the group of analyze test a
Siblings(a) ==
    { s \in Idx(tspecs) :
        ~tspecs[s].analyze /\ GroupKey(tspecs[s]) = GroupKey(tspecs[a]) }

\* the parameter dicts of the tests of S that are not skipped, in the
\* order of the test map
SurvivorParams(S) ==
    LET alive == IndexSeq({ s \in S : skip[s] = "" })
    IN [k \in 1..Len(alive) |-> tspecs[alive[k]].params]

\* C19: after the permanent filter, an analyze test with a sibling skipped
\* for a reason other than the parameter expression is skipped with reason
\* 'analyze dependency skipped'; any other analyze test is not marked and
\* its ParameterSet instances are exactly the parameter dicts of the
\* surviving siblings.
C19_AnalyzeFollowsSiblings ==
    Filtered =>
        \A a \in Idx(tspecs) : tspecs[a].analyze =>
            IF \E s \in Siblings(a) : skip[s] \notin { "", PARAM_SKIP }
            THEN skip[a] = ANALYZE_SKIP
            ELSE /\ skip[a] /= ANALYZE_SKIP
                 /\ pset[a].instances = SurvivorParams(Siblings(a))

\* test i was skipped by a runtime filter: the cutoff, or the runtime
\* range on a test every other check keeps
SkippedByRuntime(i) ==
    \/ skip[i] = CUMMULATIVE_SKIP
    \/ /\ skip[i] = FILTERED_OUT
       /\ tspecs[i].enabled /\ tspecs[i].param_ok

\* the filter ran on a group with an analyze test a whose sibling p=2 was
\* skipped by runtime, the other siblings staying active
IsAnalyzeScenario(a) ==
    /\ Filtered
    /\ tspecs[a].analyze
    /\ \A s \in Siblings(a) :
          IF tspecs[s].params = [p |-> 2]
          THEN SkippedByRuntime(s)
          ELSE skip[s] = ""

\* C20 (as claimed): with p=2 skipped by the runtime filter the analyze
\* test stays active and its ParameterSet instances are the dicts of the
\* other siblings.
C20_Original ==
    \A a \in Idx(tspecs) : IsAnalyzeScenario(a) =>
        /\ skip[a] = ""
        /\ pset[a].instances = SurvivorParams(Siblings(a))

\* C20 (amended): with p=2 skipped by the runtime filter the analyze test
\* is skipped with reason 'analyze dependency skipped' and its ParameterSet
\* instances stay the dicts of all the siblings.
C20_Amended ==
    \A a \in Idx(tspecs) : IsAnalyzeScenario(a) =>
        /\ skip[a] = ANALYZE_SKIP
        /\ pset[a].instances = ParsedParameterSet(tspecs[a]).instances
        /\ raised = ""

\* the scenario with p=2 skipped by the cutoff
C20_Witness ==
    \E a \in Idx(tspecs) :
        /\ IsAnalyzeScenario(a)
        /\ \E s \in Siblings(a) :
              tspecs[s].params = [p |-> 2] /\ skip[s] = CUMMULATIVE_SKIP
        /\ Cardinality(Siblings(a)) >= 3

(* -------------------- ParameterSet: sequences of calls ----------------- *)

\* the most values a parameter group lists, and the most calls made on one
\* ParameterSet
MaxValues == 2
MaxCalls == 4

\* the parameter groups a test file can declare: their names and the
\* values each name takes, in the order the file lists them
GroupNames == { << "A" >>, << "B", "C" >>, << "D" >> }

ValueTable ==
    [A |-> << "a1", "a2", "a3" >>, B |-> << "b1", "b2", "b3" >>,
     C |-> << "c1", "c2", "c3" >>, D |-> << "d1", "d2", "d3" >>]

\* the values_list of a group with n value tuples
GroupValues(names, n) ==
    [k \in 1..n |-> [i \in 1..Len(names) |-> ValueTable[names[i]][k]]]

\* every dictionary over the parameter names
DictUniverse ==
    { [n \in { m \in DOMAIN ValueTable : c[m] > 0 } |-> ValueTable[n][c[n]]] :
        c \in [DOMAIN ValueTable -> 0..MaxValues] }

\* the predicates handed to applyParamFilter: always true, and A = a1
Predicates ==
    { DictUniverse,
      { D \in DictUniverse : "A" \in DOMAIN D => D["A"] = "a1" } }

\* the arguments of applyParamFilter: each predicate as an object with an
\* evaluate method and as a plain function
ParamFilters ==
    { [kind |-> k, accepts |-> a] : k \in { "filter", "function" },
                                    a \in Predicates }

\* the parameter names the ParameterSet holds
NamesOf(params) ==
    UNION { { params[g][1][i] : i \in 1..Len(params[g][1]) } :
              g \in 1..Len(params) }

\* a new ParameterSet; nothing else is in use
InitPSet ==
    /\ SchedIdle
    /\ tspecs = << >> /\ skip = << >> /\ groupmap = << >>
    /\ rtconfig = << >> /\ passes = 0 /\ numactive = 0
    /\ tdeps = << >> /\ depdirs = << >> /\ has_dependent = << >>
    /\ addlog = << >>
    /\ pset = << ParameterSet_init >>
    /\ raised = ""
    /\ calls = << >>
    /\ clock = 0 /\ jobs = << >> /\ jobdb = << >>
    /\ jobwaiting = << >> /\ conn = << >>
    /\ ToolsIdle

\* what a call on the ParameterSet leaves alone
PSetUnchanged ==
    UNCHANGED << schedvars, tspecs, skip, groupmap, rtconfig, passes,
                 numactive, tdeps, depdirs, has_dependent, addlog, clock,
                 jobs, jobdb, jobwaiting, conn, toolvars >>

\* ParameterSet.addParameter( name, value_list ) with a name not yet used
ParameterSet_addParameter(name, value_list) ==
    /\ Len(calls) < MaxCalls
    /\ name \notin NamesOf(pset[1].params)
    /\ pset' = << addParameter(pset[1], name, value_list) >>
    /\ raised' = ""
    /\ calls' = Append(calls, [op |-> "addParameter",
                               arg |-> << name, value_list >>])
    /\ PSetUnchanged

\* ParameterSet.addParameterGroup( names, values_list ) with names not yet
\* used
ParameterSet_addParameterGroup(names, values_list) ==
    /\ Len(calls) < MaxCalls
    /\ \A i \in 1..Len(names) : names[i] \notin NamesOf(pset[1].params)
    /\ pset' = << addParameterGroup(pset[1], names, values_list) >>
    /\ raised' = ""
    /\ calls' = Append(calls, [op |-> "addParameterGroup",
                               arg |-> << names, values_list >>])
    /\ PSetUnchanged

\* ParameterSet.applyParamFilter( param_filter )
ParameterSet_applyParamFilter(param_filter) ==
    /\ Len(calls) < MaxCalls
    /\ LET r == applyParamFilter(pset[1], param_filter)
       IN /\ pset' = << r.pset >>
          /\ raised' = r.raised
    /\ calls' = Append(calls, [op |-> "applyParamFilter",
                               arg |-> param_filter])
    /\ PSetUnchanged

NextPSet ==
    \/ \E names \in GroupNames, n \in 1..MaxValues :
          /\ Len(names) = 1
          /\ ParameterSet_addParameter(names[1],
                 [k \in 1..n |-> ValueTable[names[1]][k]])
    \/ \E names \in GroupNames, n \in 1..MaxValues :
          /\ Len(names) > 1
          /\ ParameterSet_addParameterGroup(names, GroupValues(names, n))
    \/ \E param_filter \in ParamFilters :
          ParameterSet_applyParamFilter(param_filter)

SpecPSet == InitPSet /\ [][NextPSet]_vars

(* ------------------------- ParameterSet: claims ------------------------ *)

\* only groups were added so far, no filter was applied
OnlyAdds == \A k \in 1..Len(calls) : calls[k].op /= "applyParamFilter"

\* the dictionaries of one group, one per value tuple
GroupDicts(g) ==
    [k \in 1..Len(g[2]) |->
        [n \in { g[1][i] : i \in 1..Len(g[1]) } |->
            g[2][k][CHOOSE i \in 1..Len(g[1]) : g[1][i] = n]]]

\* union of two dictionaries over disjoint names
Merge(D1, D2) ==
    [n \in DOMAIN D1 \cup DOMAIN D2 |->
        IF n \in DOMAIN D1 THEN D1[n] ELSE D2[n]]

\* the instances in lexicographic order: the earliest group varies slowest
RECURSIVE LexExpand(_)
LexExpand(params) ==
    IF params = << >> THEN << << >> >>
    ELSE LET first == GroupDicts(Head(params))
             rest == LexExpand(Tail(params))
         IN [k \in 1..(Len(first) * Len(rest)) |->
                Merge(first[((k - 1) \div Len(rest)) + 1],
                      rest[((k - 1) % Len(rest)) + 1])]

\* the groups of the documented example: A = a1, a2 and then (B,C) =
\* (b1,c1), (b2,c2)
ExampleGroups ==
    << << << "A" >>, << << "a1" >>, << "a2" >> >> >>,
       << << "B", "C" >>, << << "b1", "c1" >>, << "b2", "c2" >> >> >> >>

\* C21: getInstances returns the instances in the lexicographic order of
\* group insertion, the earliest added group varying slowest; adding A and
\* then (B,C) gives a1b1c1, a1b2c2, a2b1c1, a2b2c2 in that order.
C21_LexicographicOrder ==
    (OnlyAdds /\ pset[1].params /= << >>) =>
        /\ pset[1].instances = LexExpand(pset[1].params)
        /\ pset[1].params = ExampleGroups =>
              pset[1].instances =
                  << [A |-> "a1", B |-> "b1", C |-> "c1"],
                     [A |-> "a1", B |-> "b2", C |-> "c2"],
                     [A |-> "a2", B |-> "b1", C |-> "c1"],
                     [A |-> "a2", B |-> "b2", C |-> "c2"] >>

\* the full expansion of the stored groups
expand(groups) == reconstruct_from(groups, ParameterSet_init).instances

\* C22: whatever calls came before, after applyParamFilter(p) the instances
\* are exactly the instances of the full expansion of the stored groups
\* that satisfy p.
C22_FilterRebuilds ==
    (calls /= << >> /\ calls[Len(calls)].op = "applyParamFilter") =>
        pset[1].instances =
            SelectSeq(expand(pset[1].params),
                      LAMBDA D : D \in calls[Len(calls)].arg.accepts)

\* the product of two instance lists over disjoint names: for each
\* dictionary of the second list in turn, its union with every dictionary
\* of the first
Product(L, R) ==
    [k \in 1..(Len(L) * Len(R)) |->
        Merge(L[((k - 1) % Len(L)) + 1], R[((k - 1) \div Len(L)) + 1])]

RECURSIVE NumCombinations(_)
NumCombinations(params) ==
    IF params = << >> THEN 1
    ELSE Len(Head(params)[2]) * NumCombinations(Tail(params))

MaxJobs == 2
MaxClock == 4

\* clock ticks per second: time.strftime prints whole seconds
TicksPerSecond == 2

\* str( None ): a missing name or machine in a job id
NoneStr == "None"

\* a job id that was never returned by submit_job
UnknownId == << "zz", NoneStr, 0 >>

\* the attribute names of a job that the runner and the worker use
AttrNames ==
    { "name", "machine", "date", "command", "poll_interval", "waitforjobid",
      "logname", "logpath", "exit", "exc" }

\* the value that stands for "attr_name is not in attrD"
Unset(attr_name) ==
    CASE attr_name \in { "name", "machine", "command", "exc" } -> "unset"
      [] attr_name \in { "date", "poll_interval", "exit" } -> -1
      [] OTHER -> << >>

\* Job.__init__(): no attributes, no thread, state 'setup'. thread is the
\* threading.Thread object of the job: "none" before it is made, "new"
\* when made and not started, "clear", "command", "store" while it runs
\* threxec, "dead" when it has finished. fault records the exception the
\* job met: in setup, in the preparation of a launch, in Job.start or in
\* execute().
Job_init ==
    [state |-> "setup", runthread |-> None, lock |-> "free",
     attrD |-> [n \in AttrNames |-> Unset(n)], thread |-> "none", fault |-> ""]

\* Job.has( attr_name )
Job_has(jb, attr_name) == jb.attrD[attr_name] /= Unset(attr_name)

\* Job.get( attr_name, default )
Job_get(jb, attr_name, default) ==
    IF Job_has(jb, attr_name) THEN jb.attrD[attr_name] ELSE default

\* the checks Job.set applies to a value: poll_interval must be positive,
\* name and machine non-empty
set_ok(attr_name, attr_value) ==
    CASE attr_name = "poll_interval" -> attr_value > 0
      [] attr_name \in { "name", "machine" } -> attr_value /= ""
      [] OTHER -> TRUE

\* Job.set( attr_name, attr_value ), the lock taken and released
Job_set(jb, attr_name, attr_value) ==
    [jb EXCEPT !.attrD[attr_name] = attr_value]

\* Job.clear( attr_name )
Job_clear(jb, attr_name) ==
    [jb EXCEPT !.attrD[attr_name] = Unset(attr_name)]

\* time.strftime( "%a_%b_%d_%Y_%H:%M:%S_%Z" ): the time in whole seconds
strftime(now) == now \div TicksPerSecond

\* Job.date(): the 'date' attribute, set from the clock when it is missing
Job_date(jb, now) ==
    IF ~Job_has(jb, "date")
    THEN Job_set(jb, "date", strftime(now))
    ELSE jb

\* Job.logname(): name [-machine] -date .log, kept in 'logname'
Job_logname(jb, now) ==
    IF Job_has(jb, "logname") THEN jb
    ELSE LET d == Job_date(jb, now)
         IN Job_set(d, "logname", << Job_get(d, "name", NoneStr),
                                     Job_get(d, "machine", NoneStr),
                                     d.attrD["date"] >>)

\* Job.logpath(): the remote log file path, kept in 'logpath'
Job_logpath(jb, now) ==
    IF Job_has(jb, "logpath") THEN jb
    ELSE LET n == Job_logname(jb, now)
         IN Job_set(n, "logpath", n.attrD["logname"])

\* Job.jobid() on a job whose date is set
Job_jobid(jb) ==
    << Job_get(jb, "name", NoneStr), Job_get(jb, "machine", NoneStr),
       jb.attrD["date"] >>

\* Job.finalize(): [jb, raised]; the job id and the log name are fixed, a
\* job without a command raises
Job_finalize(jb, now) ==
    LET d == Job_date(jb, now)
    IN IF ~Job_has(d, "command") THEN [jb |-> d, raised |-> TRUE]
       ELSE [jb |-> [Job_logname(d, now) EXCEPT !.state = "ready"],
             raised |-> FALSE]

\* Job.start(): [jb, raised]; alive tells whether t.start() returned
Job_start(jb, alive) ==
    IF jb.state /= "ready"
    THEN [jb |-> [jb EXCEPT !.state = "done"], raised |-> TRUE]
    ELSE IF alive
    THEN [jb |-> [jb EXCEPT !.runthread = "t", !.thread = "clear",
                            !.state = "run"],
          raised |-> FALSE]
    ELSE [jb |-> [jb EXCEPT !.runthread = "t", !.thread = "new",
                            !.state = "done", !.fault = "start"],
          raised |-> TRUE]

\* threading.Thread.is_alive()
is_alive(jb) == jb.thread \in { "clear", "command", "store" }

\* mutation of poll: a job in state run is marked done whether or not its
\* thread is alive
Job_poll_nojoin(jb) ==
    IF jb.state = "run"
    THEN [jb EXCEPT !.runthread = None, !.state = "done"]
    ELSE jb

\* Job.poll(): a job in state run whose thread is no longer alive is
\* joined and becomes done
Job_poll(jb) ==
    IF jb.state = "run" /\ ~is_alive(jb)
    THEN [jb EXCEPT !.runthread = None, !.state = "done"]
    ELSE jb

\* how execute() ends in the thread of a job: 'exit' is stored, an
\* exception is raised, or (remote jobs) _monitor ends with no exit status
\* found in the log
ExecOutcomes == { "exit", "raises", "noexit" }

\* mutation of threxec_store: the result is written without the lock
threxec_store_nolock(jb, outcome) ==
    IF outcome = "raises"
    THEN [Job_set(jb, "exc", "exception") EXCEPT !.thread = "store",
                                             !.fault = "execute"]
    ELSE IF outcome = "noexit" THEN [jb EXCEPT !.thread = "dead"]
    ELSE [Job_set(jb, "exit", 0) EXCEPT !.thread = "store"]

\* the end of threxec: the command has finished. execute() stores 'exit'
\* (_run_wait, or scanExitStatus on a log that holds 'Subcommand exit:'),
\* or threxec stores 'exc' for the exception execute() raised, with the
\* lock taken; or _monitor leaves its loop, the remote process gone or
\* the monitor timed out, on a log without 'Subcommand exit:', and
\* execute() returns with nothing stored
threxec_store(jb, outcome) ==
    IF outcome = "raises"
    THEN [Job_set(jb, "exc", "exception") EXCEPT !.lock = "worker",
                                             !.thread = "store",
                                             !.fault = "execute"]
    ELSE IF outcome = "noexit" THEN [jb EXCEPT !.thread = "dead"]
    ELSE [Job_set(jb, "exit", 0) EXCEPT !.lock = "worker", !.thread = "store"]

(* --------------------------- runjob.py: JobRunner ---------------------- *)

\* the keys of a dictionary kept as a sequence of << key, value.. >> in
\* insertion order
DictKeys(D) == { D[k][1] : k \in 1..Len(D) }

\* D[key] for a key of D: the entry stored under it
DictGet(D, key) == D[CHOOSE k \in 1..Len(D) : D[k][1] = key]

\* D[key] = entry: a new key is appended, a known key keeps its place
DictSet(D, entry) ==
    IF entry[1] \in DictKeys(D)
    THEN [k \in 1..Len(D) |-> IF D[k][1] = entry[1] THEN entry ELSE D[k]]
    ELSE Append(D, entry)

\* what the launch of a job meets: the thread starts; the lines before
\* jb.start() raise; t.start() raises
LaunchOutcomes == { "ok", "prepare_raises", "start_raises" }

\* the except clause of submit_job and launch_job: jb.set( 'exc', .. )
record_exc(jb) == Job_set(jb, "exc", "exception")

\* mutation of launch_job: no except clause, the exception leaves the call
launch_job_nocatch(jb, outcome) ==
    IF jb.state /= "ready" THEN [jb |-> jb, raised |-> "AssertionError"]
    ELSE IF outcome = "prepare_raises"
    THEN [jb |-> [jb EXCEPT !.fault = "prepare"], raised |-> "Exception"]
    ELSE LET s == Job_start(jb, outcome = "ok")
         IN [jb |-> s.jb, raised |-> IF s.raised THEN "Exception" ELSE ""]

\* JobRunner.launch_job( jb ): [jb, raised]. The assert on the state is
\* outside the try; every exception of the try block is recorded in 'exc'
launch_job(jb, outcome) ==
    IF jb.state /= "ready" THEN [jb |-> jb, raised |-> "AssertionError"]
    ELSE IF outcome = "prepare_raises"
    THEN [jb |-> record_exc([jb EXCEPT !.fault = "prepare"]), raised |-> ""]
    ELSE LET s == Job_start(jb, outcome = "ok")
         IN [jb |-> IF s.raised THEN record_exc(s.jb) ELSE s.jb,
             raised |-> ""]

\* the first loop of poll_jobs: every job of jobdb in state run is polled
poll_running(J, db) ==
    [i \in 1..Len(J) |->
        IF \E k \in 1..Len(db) : db[k][2] = i THEN Job_poll(J[i]) ELSE J[i]]

\* mutation of poll_waiting: a waiting job is launched whatever the state
\* of the job it waits for
RECURSIVE poll_waiting_always(_, _, _, _, _)
poll_waiting_always(st, db, W, outs, k) ==
    IF k > Len(W) THEN st
    ELSE LET j == W[k][2]
             l == launch_job(st.jobs[j], outs[k])
         IN poll_waiting_always(
                [st EXCEPT !.jobs[j] = l.jb,
                           !.raised = IF st.raised = "" THEN l.raised
                                      ELSE st.raised],
                db, W, outs, k + 1)

\* the second loop of poll_jobs over the entries W of waiting, from entry
\* k on: a job whose predecessor is in state setup or done is launched,
\* the others are kept in D; st = [jobs, D, raised]
RECURSIVE poll_waiting(_, _, _, _, _)
poll_waiting(st, db, W, outs, k) ==
    IF k > Len(W) \/ st.raised /= "" THEN st
    ELSE LET j == W[k][2]
             waitstate == st.jobs[DictGet(db, W[k][3])[2]].state
         IN IF waitstate \in { "setup", "done" }
            THEN LET l == launch_job(st.jobs[j], outs[k])
                 IN poll_waiting([st EXCEPT !.jobs[j] = l.jb,
                                            !.raised = l.raised],
                                 db, W, outs, k + 1)
            ELSE poll_waiting([st EXCEPT !.D = Append(st.D, W[k])],
                              db, W, outs, k + 1)

\* JobRunner.poll_jobs(): [jobs, waiting, raised]; outs[k] is what the
\* launch of the k-th waiting job meets
poll_jobs(J, db, W, outs) ==
    LET st == poll_waiting([jobs |-> poll_running(J, db), D |-> << >>,
                            raised |-> ""], db, W, outs, 1)
    IN [jobs |-> st.jobs,
        waiting |-> IF st.raised = "" THEN st.D ELSE W,
        raised |-> st.raised]

\* the keyword arguments in the order submit_job sets them
KwargOrder == << "name", "machine", "poll_interval", "waitforjobid" >>

\* the loop jb.set( n, v ) over the keyword arguments from the k-th on:
\* [jb, raised]
RECURSIVE set_kwargs(_, _, _)
set_kwargs(jb, kwargs, k) ==
    IF k > Len(KwargOrder) THEN [jb |-> jb, raised |-> FALSE]
    ELSE LET n == KwargOrder[k]
         IN IF kwargs[n] = Unset(n) THEN set_kwargs(jb, kwargs, k + 1)
            ELSE IF ~set_ok(n, kwargs[n]) THEN [jb |-> jb, raised |-> TRUE]
            ELSE set_kwargs(Job_set(jb, n, kwargs[n]), kwargs, k + 1)

\* the try block of submit_job: [jb, raised]. No command raises; the job
\* name is the 'name' keyword or the first word of the command; the
\* keywords are set; an unknown waitforjobid raises; the job is finalized
prepare_job(args, kwargs, db, now) ==
    IF Len(args) = 0 THEN [jb |-> Job_init, raised |-> TRUE]
    ELSE LET jobname == IF kwargs["name"] /= Unset("name")
                        THEN kwargs["name"] ELSE args[1]
             named == Job_set(Job_set(Job_init, "name", jobname),
                              "command", args[1])
             kw == set_kwargs(named, kwargs, 1)
         IN IF kw.raised THEN kw
            ELSE IF /\ kwargs["waitforjobid"] /= Unset("waitforjobid")
                    /\ kwargs["waitforjobid"] \notin DictKeys(db)
            THEN [jb |-> kw.jb, raised |-> TRUE]
            ELSE Job_finalize(kw.jb, now)

\* mutation of sleep: the call returns at once
sleep_none(now, secs) == now

\* time.sleep( secs ): the clock when the call returns
sleep(now, secs) == now + secs * TicksPerSecond

(* ------------------------ runjob.py: the operations -------------------- *)

\* the poll_interval keyword of wait_job and wait_all, in seconds
PollSeconds == 1

\* keyword arguments of run_job; a keyword that is not given is Unset
Kwargs(name, machine, poll_interval, waitforjobid) ==
    [name |-> name, machine |-> machine, poll_interval |-> poll_interval,
     waitforjobid |-> waitforjobid]

\* the calls of run_job: << args, kwargs >>. A named local job, a job
\* named after its command, a remote job, a call without a command, a
\* call with poll_interval = 0, and a named job that waits for a job id
SubmitChoices(db) ==
    { << << "true" >>, Kwargs("a", Unset("machine"), -1, << >>) >>,
      << << "true" >>, Kwargs(Unset("name"), Unset("machine"), -1, << >>) >>,
      << << "true" >>, Kwargs("a", "m", -1, << >>) >>,
      << << >>, Kwargs("a", Unset("machine"), -1, << >>) >>,
      << << "true" >>, Kwargs("a", Unset("machine"), 0, << >>) >> }
    \cup
    { << << "true" >>, Kwargs("a", Unset("machine"), -1, wjid) >> :
         wjid \in DictKeys(db) \cup { UnknownId } }

\* a new JobRunner; nothing else is in use
InitJobs ==
    /\ SchedIdle
    /\ ListIdle
    /\ RunnerIdle
    /\ ToolsIdle

\* what the job runner and its jobs leave alone
JobsUnchanged ==
    UNCHANGED << tlist, deps, status, created, backlog, waiting, started,
                 stopped, remaining, inuse, resobj, xtlist, tspecs, skip,
                 groupmap, rtconfig, pset, passes, numactive, tdeps, depdirs,
                 has_dependent, addlog, calls, conn, toolvars >>

\* the controller is inside wait_job or wait_all, between two polls
InLoop == ret.op \in { "complete_wait", "complete_all_wait" }

\* the state of the job stored under jid
StateOf(J, db, jid) == J[DictGet(db, jid)[2]].state

\* the launch outcomes poll_jobs can meet, one per waiting job
LaunchVectors == [1..Len(jobwaiting) -> LaunchOutcomes]

\* JobRunner.submit_job( *args, **kwargs ): the jobs are polled, the Job
\* is made and prepared; a job that raised is stored with 'exc', a job
\* with a waitforjobid is put in waiting, any other job is launched; the
\* call sleeps one second and returns the job id
JobRunner_submit_job(args, kwargs, outs, out) ==
    /\ ~InLoop
    /\ Len(jobs) < MaxJobs
    /\ clock + TicksPerSecond <= MaxClock
    /\ LET p == poll_jobs(jobs, jobdb, jobwaiting, outs)
           r == prepare_job(args, kwargs, jobdb, clock)
           idx == Len(jobs) + 1
           failed == record_exc([Job_date(r.jb, clock) EXCEPT
                                    !.fault = "setup"])
           waits == kwargs["waitforjobid"] /= Unset("waitforjobid")
           l == launch_job(r.jb, out)
           jb == IF r.raised THEN failed
                 ELSE IF waits THEN r.jb ELSE l.jb
           exc == IF p.raised /= "" THEN p.raised
                  ELSE IF ~r.raised /\ ~waits THEN l.raised ELSE ""
       IN IF p.raised /= ""
          THEN /\ jobs' = p.jobs
               /\ jobwaiting' = p.waiting
               /\ raised' = p.raised
               /\ UNCHANGED << jobdb, clock, ret >>
          ELSE /\ jobs' = Append(p.jobs, jb)
               /\ jobdb' = DictSet(jobdb, << Job_jobid(jb), idx >>)
               /\ jobwaiting' =
                     IF ~r.raised /\ waits
                     THEN DictSet(p.waiting, << Job_jobid(jb), idx,
                                                kwargs["waitforjobid"] >>)
                     ELSE p.waiting
               /\ raised' = exc
               /\ clock' = IF exc = "" THEN sleep(clock, 1) ELSE clock
               /\ ret' = [op |-> "submit_job", arg |-> None,
                          val |-> Job_jobid(jb)]
    /\ JobsUnchanged

\* mutation of JobRunner_isDone: only a job in state done counts as done
JobRunner_isDone_doneonly(jid, outs) ==
    /\ ~InLoop
    /\ jid \in DictKeys(jobdb)
    /\ LET p == poll_jobs(jobs, jobdb, jobwaiting, outs)
       IN /\ jobs' = p.jobs
          /\ jobwaiting' = p.waiting
          /\ raised' = p.raised
          /\ ret' = [op |-> "isDone", arg |-> jid,
                     val |-> StateOf(p.jobs, jobdb, jid) = "done"]
    /\ UNCHANGED << jobdb, clock >>
    /\ JobsUnchanged

\* poll_job( jobid ) = JobRunner.isDone( jobid )
JobRunner_isDone(jid, outs) ==
    /\ ~InLoop
    /\ jid \in DictKeys(jobdb)
    /\ LET p == poll_jobs(jobs, jobdb, jobwaiting, outs)
       IN /\ jobs' = p.jobs
          /\ jobwaiting' = p.waiting
          /\ raised' = p.raised
          /\ ret' = [op |-> "isDone", arg |-> jid,
                     val |-> StateOf(p.jobs, jobdb, jid)
                                \in { "setup", "done" }]
    /\ UNCHANGED << jobdb, clock >>
    /\ JobsUnchanged

\* wait_job( jobid ) = JobRunner.complete( jobid ): one turn of the loop;
\* the jobs are polled and the call returns the job, or sleeps and stays
\* in the loop
JobRunner_complete(jid, outs) ==
    /\ IF InLoop THEN ret.op = "complete_wait" /\ ret.arg = jid
       ELSE jid \in DictKeys(jobdb)
    /\ LET p == poll_jobs(jobs, jobdb, jobwaiting, outs)
           returns == StateOf(p.jobs, jobdb, jid) \in { "setup", "done" }
       IN /\ jobs' = p.jobs
          /\ jobwaiting' = p.waiting
          /\ raised' = p.raised
          /\ ret' = [op |-> IF returns \/ p.raised /= "" THEN "complete"
                            ELSE "complete_wait",
                     arg |-> jid, val |-> None]
          /\ clock' = IF returns \/ p.raised /= "" THEN clock
                      ELSE Min(sleep(clock, PollSeconds), MaxClock)
    /\ UNCHANGED jobdb
    /\ JobsUnchanged

\* the job ids complete_all waits for when none are given: the jobs of
\* jobdb in state ready or run
PendingIds ==
    { jid \in DictKeys(jobdb) :
        StateOf(jobs, jobdb, jid) \in { "ready", "run" } }

\* wait_all() = JobRunner.complete_all(): one turn of the loop
JobRunner_complete_all(outs) ==
    /\ InLoop => ret.op = "complete_all_wait"
    /\ LET jobids == IF InLoop THEN ret.arg ELSE PendingIds
           p == poll_jobs(jobs, jobdb, jobwaiting, outs)
           returns == \A jid \in jobids :
                         StateOf(p.jobs, jobdb, jid) \in { "setup", "done" }
       IN /\ jobs' = p.jobs
          /\ jobwaiting' = p.waiting
          /\ raised' = p.raised
          /\ ret' = [op |-> IF returns \/ p.raised /= "" THEN "complete_all"
                            ELSE "complete_all_wait",
                     arg |-> jobids, val |-> None]
          /\ clock' = IF returns \/ p.raised /= "" THEN clock
                      ELSE Min(sleep(clock, PollSeconds), MaxClock)
    /\ UNCHANGED jobdb
    /\ JobsUnchanged

\* time passes
Tick ==
    /\ clock < MaxClock
    /\ clock' = clock + 1
    /\ UNCHANGED << jobs, jobdb, jobwaiting, raised, ret >>
    /\ JobsUnchanged

\* the start of threxec in the thread of job j: execute() clears 'exit';
\* a remote job fixes its log path
threxec_begin(jb, now) ==
    LET c == Job_clear(jb, "exit")
        p == IF Job_has(c, "machine") THEN Job_logpath(c, now) ELSE c
    IN [p EXCEPT !.thread = "command"]

Worker_begin(j) ==
    /\ j \in 1..Len(jobs)
    /\ jobs[j].thread = "clear"
    /\ jobs[j].lock = "free"
    /\ jobs' = [jobs EXCEPT ![j] = threxec_begin(jobs[j], clock)]
    /\ UNCHANGED << clock, jobdb, jobwaiting, raised, ret >>
    /\ JobsUnchanged

\* the command of job j ends: execute() returns or raises, and the thread
\* takes the lock and stores 'exit' or 'exc'; for a remote job the
\* monitor may end with nothing to store
Worker_store(j, outcome) ==
    /\ j \in 1..Len(jobs)
    /\ jobs[j].thread = "command"
    /\ jobs[j].lock = "free"
    /\ outcome = "noexit" => Job_has(jobs[j], "machine")
    /\ jobs' = [jobs EXCEPT ![j] = threxec_store(jobs[j], outcome)]
    /\ UNCHANGED << clock, jobdb, jobwaiting, raised, ret >>
    /\ JobsUnchanged

\* the thread of job j releases the lock and ends
Worker_exit(j) ==
    /\ j \in 1..Len(jobs)
    /\ jobs[j].thread = "store"
    /\ jobs' = [jobs EXCEPT ![j].lock = "free", ![j].thread = "dead"]
    /\ UNCHANGED << clock, jobdb, jobwaiting, raised, ret >>
    /\ JobsUnchanged

\* the steps of the thread of job j
Worker(j) ==
    \/ Worker_begin(j)
    \/ \E outcome \in ExecOutcomes : Worker_store(j, outcome)
    \/ Worker_exit(j)

\* an operation that polls the jobs
Polling ==
    \/ \E jid \in DictKeys(jobdb), outs \in LaunchVectors :
          JobRunner_isDone(jid, outs)
    \/ \E jid \in DictKeys(jobdb), outs \in LaunchVectors :
          JobRunner_complete(jid, outs)
    \/ \E outs \in LaunchVectors : JobRunner_complete_all(outs)

NextJobs ==
    \/ \E sub \in SubmitChoices(jobdb), outs \in LaunchVectors,
          out \in LaunchOutcomes :
          JobRunner_submit_job(sub[1], sub[2], outs, out)
    \/ Polling
    \/ Tick
    \/ \E j \in 1..MaxJobs : Worker(j)

SpecJobs == InitJobs /\ [][NextJobs]_vars

\* the threads run and the controller keeps polling
SpecJobsLive ==
    /\ SpecJobs
    /\ WF_vars(Polling)
    /\ \A j \in 1..MaxJobs : WF_vars(Worker(j))

(* ------------------------- claims C24 - C29 --------------------------- *)

\* the position of a state in setup -> ready -> run -> done
StateRank(state) ==
    CASE state = "setup" -> 0
      [] state = "ready" -> 1
      [] state = "run" -> 2
      [] OTHER -> 3

\* the job finalize() leaves behind: command, date and logname are set
Finalized(jb) ==
    Job_has(jb, "command") /\ Job_has(jb, "date") /\ Job_has(jb, "logname")

\* C24: a Job's state only moves forward along setup -> ready -> run ->
\* done. A stored job in state setup stays in setup, and a job is stored
\* in a later state only finalized (finalize is the only way out of
\* setup); a job enters run only from ready (or within the submit_job call
\* that made it) with its thread started by Job.start; a job in state run
\* becomes done only when its thread is no longer alive, and is then
\* joined; no step moves a job to an earlier state.
C24_StateForward ==
    [][\A j \in 1..Len(jobs') :
          LET b == jobs'[j]
          IN IF j <= Len(jobs)
             THEN LET a == jobs[j]
                  IN /\ StateRank(a.state) <= StateRank(b.state)
                     /\ a.state = "setup" => b.state = "setup"
                     /\ (a.state /= "run" /\ b.state = "run") =>
                           /\ a.state = "ready"
                           /\ a.thread = "none"
                           /\ b.runthread = "t"
                           /\ is_alive(b)
                     /\ (a.state = "run" /\ b.state = "done") =>
                           /\ ~is_alive(a)
                           /\ b.runthread = None
             ELSE /\ b.state /= "setup" => Finalized(b)
                  /\ b.state = "run" => b.runthread = "t" /\ is_alive(b)
                  /\ b.state = "done" => b.fault = "start"
      ]_vars

\* a job became done after its thread ended, next to a job that failed in
\* setup
C24_Witness ==
    /\ Len(jobs) = 2
    /\ \E i, j \in 1..2 :
          /\ jobs[i].state = "done"
          /\ jobs[i].thread = "dead"
          /\ jobs[i].runthread = None
          /\ Job_has(jobs[i], "exit")
          /\ jobs[j].state = "setup"

\* the other jobs of a step in which job j met an exception: their
\* attributes are as before and their state is what the poll or the
\* launch of that job alone makes it
OthersUntouched(j) ==
    \A k \in 1..Len(jobs) :
       (k /= j /\ jobs'[k].fault = jobs[k].fault) =>
          /\ jobs'[k].attrD = jobs[k].attrD
          /\ jobs'[k].state \in { jobs[k].state, Job_poll(jobs[k]).state,
                                  launch_job(jobs[k], "ok").jb.state }

\* C25: an exception while a job is prepared in submit_job, while it is
\* started in launch_job / Job.start, or inside execute() in its thread
\* is recorded in the 'exc' attribute of that job; no exception leaves
\* submit_job, poll_job, wait_job or wait_all; the attributes and states
\* of the other jobs are not touched by it.
C25_ExceptionsRecorded ==
    /\ [](raised = "")
    /\ [](\A j \in 1..Len(jobs) : jobs[j].fault /= "" <=> Job_has(jobs[j], "exc"))
    /\ [][\A j \in 1..Len(jobs') :
             IF j <= Len(jobs)
             THEN jobs'[j].fault /= jobs[j].fault =>
                     /\ jobs[j].fault = ""
                     /\ Job_has(jobs'[j], "exc")
                     /\ OthersUntouched(j)
             ELSE jobs'[j].fault /= "" => OthersUntouched(j)
         ]_vars

\* one job failed in setup and the other one in its thread
C25_Witness ==
    /\ Len(jobs) = 2
    /\ raised = ""
    /\ \E i, j \in 1..2 :
          /\ jobs[i].fault = "setup" /\ jobs[i].state = "setup"
          /\ jobs[j].fault = "execute" /\ jobs[j].state = "done"
          /\ Job_has(jobs[i], "exc") /\ Job_has(jobs[j], "exc")

\* C26: every job id returned by submit_job eventually reaches a
\* completed state (setup or done), the threads running on and the
\* controller polling on; an exception during the launch ends with state
\* done.
C26_EventuallyCompleted ==
    \A j \in 1..MaxJobs :
       (Len(jobs) >= j) ~> (Len(jobs) >= j /\ jobs[j].state \in { "setup", "done" })

\* the job that job j was told to wait for, as an index of jobs; 0 for a
\* job that waits for none
WaitsFor(j) ==
    IF Job_has(jobs[j], "waitforjobid")
       /\ Job_get(jobs[j], "waitforjobid", UnknownId) \in DictKeys(jobdb)
    THEN DictGet(jobdb, Job_get(jobs[j], "waitforjobid", UnknownId))[2]
    ELSE 0

\* job j is parked in waiting
Parked(W, j) == \E k \in 1..Len(W) : W[k][2] = j

\* C27: a job submitted with waitforjobid=W is parked in waiting, and is
\* never in state run while W is in state ready or run; poll_jobs
\* launches it only once W is in state setup or done, and it then leaves
\* waiting.
C27_WaitsForPredecessor ==
    /\ [](\A j \in 1..Len(jobs) :
            /\ Parked(jobwaiting, j) =>
                  /\ jobs[j].state = "ready"
                  /\ jobs[j].thread = "none"
                  /\ jobs[j].fault = ""
                  /\ WaitsFor(j) /= 0
            /\ (WaitsFor(j) /= 0 /\ jobs[j].state = "run") =>
                  jobs[WaitsFor(j)].state \in { "setup", "done" }
            /\ (WaitsFor(j) /= 0 /\ jobs[WaitsFor(j)].state \in { "ready", "run" }
                  /\ jobs[j].state = "ready") => Parked(jobwaiting, j))
    /\ [][\A j \in 1..Len(jobs') :
             IF j <= Len(jobs)
             THEN (Parked(jobwaiting, j) /\ jobs'[j] /= jobs[j]) =>
                     /\ jobs'[WaitsFor(j)].state \in { "setup", "done" }
                     /\ ~Parked(jobwaiting', j)
             ELSE (Job_has(jobs'[j], "waitforjobid") /\ jobs'[j].state /= "setup")
                     => jobs'[j].state = "ready" /\ Parked(jobwaiting', j)
         ]_vars

\* a job that waited runs after the job it waited for is done
C27_Witness ==
    /\ Len(jobs) = 2
    /\ WaitsFor(2) = 1
    /\ jobs[1].state = "done"
    /\ jobs[2].state = "run"
    /\ ~Parked(jobwaiting, 2)

\* C28: any two jobs submitted through the runner have distinct job ids
\* (name, machine, date), so jobdb holds every job submitted, one entry
\* each, the jobs that failed in setup included.
C28_DistinctJobIds ==
    /\ \A i, j \in 1..Len(jobs) :
          i /= j => Job_jobid(jobs[i]) /= Job_jobid(jobs[j])
    /\ Len(jobdb) = Len(jobs)
    /\ \A k \in 1..Len(jobdb) : jobdb[k] = << Job_jobid(jobs[k]), k >>

\* two jobs of the same name and machine, one of them failed in setup
C28_Witness ==
    /\ Len(jobs) = 2
    /\ Job_jobid(jobs[1])[1] = Job_jobid(jobs[2])[1]
    /\ Job_jobid(jobs[1])[2] = Job_jobid(jobs[2])[2]
    /\ \E j \in 1..2 : jobs[j].state = "setup"

MaxAttempts == 3
MaxRemote == 2

\* the return value None of _connect, and the pair capture_traceback()
\* returns
NoTraceback == << >>
capture_traceback == << "xs", "tb" >>

\* the state of _run_remote at its call of _connect( rmt, numconn ):
\* i is the loop index, sleeps the time.sleep() calls made, attempts the
\* outcome of each connection attempt, rtn the value _connect returns,
\* started tells whether background_command was called on the remote
\* side, exc is the exception _run_remote raised
run_remote_init(numconn, dryrun) ==
    [limit |-> numconn, dryrun |-> dryrun, pc |-> "begin", i |-> 0,
     sleeps |-> << >>, attempts |-> << >>, rtn |-> NoTraceback,
     started |-> FALSE, exit |-> -1, exc |-> ""]

\* mutation of connect_attempt: the loop goes on after an attempt that
\* succeeded
connect_attempt_nobreak(c, ok) ==
    [c EXCEPT !.sleeps = IF c.i > 0 THEN Append(@, 2 ^ c.i) ELSE @,
              !.attempts = Append(@, ok),
              !.rtn = IF ok THEN NoTraceback ELSE capture_traceback,
              !.i = @ + 1,
              !.pc = IF c.i + 1 >= c.limit THEN "return" ELSE "loop"]

\* one turn of the loop of _connect: the sleep of 2**i seconds when
\* i > 0, the attempt, and the break when it raised nothing
connect_attempt(c, ok) ==
    [c EXCEPT !.sleeps = IF c.i > 0 THEN Append(@, 2 ^ c.i) ELSE @,
              !.attempts = Append(@, ok),
              !.rtn = IF ok THEN NoTraceback ELSE capture_traceback,
              !.i = IF ok THEN @ ELSE @ + 1,
              !.pc = IF ok \/ c.i + 1 >= c.limit THEN "return" ELSE "loop"]

\* _run_remote up to the loop of _connect: a dry run stores exit 0 and
\* connects to nothing; _connect asserts limit > 0
run_remote_begin(c) ==
    IF c.dryrun THEN [c EXCEPT !.exit = 0, !.pc = "done"]
    ELSE IF c.limit > 0 THEN [c EXCEPT !.pc = "loop"]
    ELSE [c EXCEPT !.exc = "AssertionError", !.pc = "done"]

\* _run_remote after _connect returned T: it raises when T is not None,
\* and starts the command on the remote side otherwise
run_remote_connected(c) ==
    IF c.rtn /= NoTraceback
    THEN [c EXCEPT !.exc = "Could not connect", !.pc = "done"]
    ELSE [c EXCEPT !.started = TRUE, !.pc = "done"]

InitConnect ==
    /\ SchedIdle
    /\ ListIdle
    /\ RunnerIdle
    /\ ToolsIdle

ConnectUnchanged ==
    UNCHANGED << schedvars, listvars, calls, clock, jobs, jobdb, jobwaiting,
                 toolvars >>

\* the thread of a remote job enters _run_remote
Job_run_remote(numconn, dryrun) ==
    /\ Len(conn) < MaxRemote
    /\ IF conn = << >> THEN TRUE ELSE conn[Len(conn)].pc = "done"
    /\ conn' = Append(conn, run_remote_begin(run_remote_init(numconn, dryrun)))
    /\ ConnectUnchanged

\* the next attempt of _connect
Job_connect(ok) ==
    /\ conn /= << >>
    /\ conn[Len(conn)].pc = "loop"
    /\ conn' = [conn EXCEPT ![Len(conn)] = connect_attempt(@, ok)]
    /\ ConnectUnchanged

\* _connect returns to _run_remote
Job_connected ==
    /\ conn /= << >>
    /\ conn[Len(conn)].pc = "return"
    /\ conn' = [conn EXCEPT ![Len(conn)] = run_remote_connected(@)]
    /\ ConnectUnchanged

NextConnect ==
    \/ \E numconn \in 0..MaxAttempts, dryrun \in BOOLEAN :
          Job_run_remote(numconn, dryrun)
    \/ \E ok \in BOOLEAN : Job_connect(ok)
    \/ Job_connected

SpecConnect == InitConnect /\ [][NextConnect]_vars

\* an attempt of c succeeded
Connected(c) == \E k \in 1..Len(c.attempts) : c.attempts[k]

\* C30: _connect makes its attempts one after another and sleeps 2^i
\* seconds before attempt i (i >= 1); it stops at the first attempt that
\* succeeds and makes no more than connection_attempts attempts, and no
\* fewer unless one succeeded; it returns None exactly when an attempt
\* succeeded, and otherwise the job fails with an exception and no
\* remote command is started.
C30_ConnectRetry ==
    \A r \in 1..Len(conn) :
       LET c == conn[r]
           n == Len(c.attempts)
       IN /\ n <= c.limit \/ n = 0
          /\ c.sleeps = [k \in 1..(IF n = 0 THEN 0 ELSE n - 1) |-> 2 ^ k]
          /\ \A k \in 1..n : c.attempts[k] => k = n
          /\ c.pc = "loop" => ~Connected(c) /\ n < c.limit
          /\ c.pc = "return" =>
                /\ c.rtn = NoTraceback <=> Connected(c)
                /\ Connected(c) \/ n = c.limit
          /\ (c.pc = "done" /\ ~c.dryrun) =>
                IF Connected(c)
                THEN c.started /\ c.exc = ""
                ELSE ~c.started /\ c.exc /= "" /\ (c.limit > 0 => n = c.limit)
          /\ c.dryrun => n = 0 /\ ~c.started

\* one remote job gave up after every attempt failed, another one was
\* connected at its last attempt after sleeping 2 and 4 seconds
C30_Witness ==
    /\ Len(conn) = 2
    /\ \E r, s \in 1..2 :
          /\ conn[r].pc = "done" /\ ~Connected(conn[r])
          /\ Len(conn[r].attempts) = conn[r].limit /\ conn[r].limit > 1
          /\ conn[r].exc = "Could not connect"
          /\ conn[s].pc = "done" /\ conn[s].started
          /\ conn[s].sleeps = << 2, 4 >>

(* ----------------------- slurm.py: BatchSLURM.submit ------------------- *)

\* the most words in the output of sbatch
MaxWords == 5

\* the words the output of sbatch is made of, one space between two words
OutWords == { "sbatch:", "Submitted", "batch", "job", "291041", "error:", "bad" }

\* out.find( "Submitted batch job" ): the first word at which the three
\* words start, 0 when find returns -1
out_find(out) ==
    LET hits == { k \in 1..Len(out) :
                    /\ k + 2 <= Len(out)
                    /\ out[k] = "Submitted"
                    /\ out[k + 1] = "batch"
                    /\ out[k + 2] = "job" }
    IN IF hits = {} THEN 0 ELSE CHOOSE k \in hits : \A h \in hits : k <= h

\* int( word ) succeeds on a word of digits
IsDigits(word) == word \in { "291041" }

\* int( word ) for a word of digits
int_of(word) == IF word = "291041" THEN 291041 ELSE 0

\* the job id values: None, an integer, or a string
JobIdNone == [kind |-> "None", int |-> 0, str |-> ""]
JobIdInt(n) == [kind |-> "int", int |-> n, str |-> ""]
JobIdStr(word) == [kind |-> "str", int |-> 0, str |-> word]

\* mutation of parse_jobid: the fourth word of the output is the job id,
\* whether or not "Submitted batch job" is found
parse_jobid_first(out) ==
    IF Len(out) > 3
    THEN IF IsDigits(out[4]) THEN JobIdInt(int_of(out[4])) ELSE JobIdStr(out[4])
    ELSE JobIdNone

\* the job id submit takes from the output: the word after "Submitted
\* batch job", as an integer when int() accepts it and as a string
\* otherwise; None when the words are not found or nothing follows them
parse_jobid(out) ==
    LET i == out_find(out)
        L == IF i = 0 THEN << >> ELSE SubSeq(out, i, Len(out))
    IN IF i > 0 /\ Len(L) > 3
       THEN IF IsDigits(L[4]) THEN JobIdInt(int_of(L[4])) ELSE JobIdStr(L[4])
       ELSE JobIdNone

\* the command line of submit with queue=None, account=None and no QoS
submit_cmd == << "sbatch", "--output=outfile", "--error=outfile", "--chdir=workdir", "fname" >>

\* BatchSLURM.submit(): ( cmd, out, job id, error message )
submit(out) ==
    LET jobid == parse_jobid(out)
    IN IF jobid = JobIdNone
       THEN [cmd |-> submit_cmd, out |-> out, jobid |-> JobIdNone,
             err |-> "batch submission failed or could not parse output to obtain the job id"]
       ELSE [cmd |-> submit_cmd, out |-> out, jobid |-> jobid, err |-> ""]

InitSlurm ==
    /\ SchedIdle
    /\ ListIdle
    /\ RunnerIdle
    /\ ToolsIdle

\* the output of the submit command so far
PrintedOut == IF slurm = << >> THEN << >> ELSE slurm[1]

\* the submit command run by self.runcmd prints one more word
runcmd_print(word) ==
    /\ Len(slurm) <= 1
    /\ Len(PrintedOut) < MaxWords
    /\ slurm' = << Append(PrintedOut, word) >>
    /\ UNCHANGED << schedvars, listvars, runnervars, results, attrs, plat >>

\* the submit command has ended and submit returns
BatchSLURM_submit ==
    /\ Len(slurm) <= 1
    /\ slurm' = << PrintedOut, submit(PrintedOut) >>
    /\ UNCHANGED << schedvars, listvars, runnervars, results, attrs, plat >>

NextSlurm ==
    \/ \E word \in OutWords : runcmd_print(word)
    \/ BatchSLURM_submit

SpecSlurm == InitSlurm /\ [][NextSlurm]_vars

\* the output holds the words 'Submitted batch job'
HasMarker(out) ==
    \E i \in 1..(Len(out) - 2) :
       out[i] = "Submitted" /\ out[i + 1] = "batch" /\ out[i + 2] = "job"

\* C31: BatchSLURM.submit returns an empty error string exactly when the
\* job id is not None; 'sbatch: Submitted batch job 291041' gives the id
\* 291041 and an empty error; an output without 'Submitted batch job'
\* followed by an id, such as 'sbatch: error: bad', gives the id None and
\* an error message.
C31_ErrorIffNoJobId ==
    Len(slurm) = 2 =>
       LET r == slurm[2]
       IN /\ r.err = "" <=> r.jobid /= JobIdNone
          /\ r.out = << "sbatch:", "Submitted", "batch", "job", "291041" >> =>
                r.jobid = JobIdInt(291041) /\ r.err = ""
          /\ ~HasMarker(r.out) => r.jobid = JobIdNone /\ r.err /= ""
          /\ r.out = << "sbatch:", "error:", "bad" >> =>
                r.jobid = JobIdNone /\ r.err /= ""

\* the submission printed 'sbatch: Submitted batch job 291041'
C31_Witness ==
    /\ Len(slurm) = 2
    /\ slurm[2].out = << "sbatch:", "Submitted", "batch", "job", "291041" >>
    /\ slurm[2].jobid.int = 291041
    /\ slurm[2].err = ""

(* ----------------------- fmtresults.py: TestResults -------------------- *)

\* the most addTestName and mergeRuntimes calls on a TestResults object
MaxMerges == 2

\* the tests of the results files: root-relative directory / test key
TestKeys == { "d/t1", "d/t2" }

\* the execution dates of the records; 0 is a record without 'xdate'
XDates == { 0, 1, 2 }

\* testAttrs( d, tn ) of a test that is not stored: an empty dictionary
NoTest == [xdate |-> 0, result |-> ""]

\* the attribute dictionaries of the records: xdate and result
AttrDicts ==
    { [xdate |-> x, result |-> r] : x \in XDates \ { 0 }, r \in { "pass", "fail" } }
       \cup { [xdate |-> 0, result |-> "pass"] }

\* the dataD of a results file or of a TestResults object handed to
\* mergeRuntimes: test -> attribute dictionary, NoTest for a test it lacks
ResultFiles == [TestKeys -> AttrDicts \cup { NoTest }]

\* TestResults.__init__(): no test, no date range
TestResults_init == [dataD |-> [k \in TestKeys |-> NoTest], daterange |-> << >>]

\* TestResults.testAttrs( d, tn ).get( 'xdate', 0 )
testAttrs_xdate(tr, key) == tr.dataD[key].xdate

\* TestResults.addTestName( rootrel, testkey, attrD ): the test is stored
\* or overwritten, and a positive xdate widens the running date range
addTestName(tr, key, attrD) ==
    [dataD |-> [tr.dataD EXCEPT ![key] = attrD],
     daterange |->
        IF attrD.xdate > 0
        THEN IF tr.daterange = << >> THEN << attrD.xdate, attrD.xdate >>
             ELSE << Min(tr.daterange[1], attrD.xdate),
                     Max(tr.daterange[2], attrD.xdate) >>
        ELSE tr.daterange]

\* mutation of merge_test: the stored test is overwritten only by a
\* record of a later date
merge_test_later(tr, key, attrD) ==
    IF attrD.xdate > testAttrs_xdate(tr, key)
    THEN addTestName(tr, key, attrD)
    ELSE tr

\* the body of the loops of mergeRuntimes: dt2 >= dt1 overwrites
merge_test(tr, key, attrD) ==
    IF attrD.xdate >= testAttrs_xdate(tr, key)
    THEN addTestName(tr, key, attrD)
    ELSE tr

\* TestResults.mergeRuntimes( filename ) over the tests of the file not
\* yet merged
RECURSIVE merge_tests(_, _, _)
merge_tests(tr, file, keys) ==
    IF keys = {} THEN tr
    ELSE LET key == CHOOSE k \in keys : TRUE
         IN merge_tests(IF file[key] = NoTest THEN tr
                        ELSE merge_test(tr, key, file[key]),
                        file, keys \ { key })

\* TestResults.mergeRuntimes( filename )
mergeRuntimes(tr, file) == merge_tests(tr, file, TestKeys)

\* TestResults.dateRange(): << >> stands for (None, None)
dateRange(tr) == tr.daterange

InitResults ==
    /\ SchedIdle
    /\ ListIdle
    /\ RunnerIdle
    /\ slurm = << >>
    /\ results = << TestResults_init, << >> >>
    /\ attrs = << >>
    /\ plat = << >>

\* results[1] is the TestResults object, results[2] the calls made on it
ResultsUnchanged ==
    UNCHANGED << schedvars, listvars, runnervars, slurm, attrs, plat >>

TestResults_addTestName(key, attrD) ==
    /\ Len(results[2]) < MaxMerges
    /\ results' = << addTestName(results[1], key, attrD),
                     Append(results[2], [op |-> "addTestName", key |-> key,
                                         attrD |-> attrD, file |-> << >>]) >>
    /\ ResultsUnchanged

TestResults_mergeRuntimes(file) ==
    /\ Len(results[2]) < MaxMerges
    /\ results' = << mergeRuntimes(results[1], file),
                     Append(results[2], [op |-> "mergeRuntimes", key |-> "",
                                         attrD |-> NoTest, file |-> file]) >>
    /\ ResultsUnchanged

NextResults ==
    \/ \E key \in TestKeys, attrD \in AttrDicts : TestResults_addTestName(key, attrD)
    \/ \E file \in ResultFiles : TestResults_mergeRuntimes(file)

SpecResults == InitResults /\ [][NextResults]_vars

\* the calls so far are all mergeRuntimes calls
OnlyMerges == \A k \in 1..Len(results[2]) : results[2][k].op = "mergeRuntimes"

\* the files merged so far, in the order they were read
MergedFiles == [k \in 1..Len(results[2]) |-> results[2][k].file]

\* the object after merging the files of a sequence into an empty one
RECURSIVE MergeAll(_, _)
MergeAll(tr, files) ==
    IF files = << >> THEN tr
    ELSE MergeAll(mergeRuntimes(tr, Head(files)), Tail(files))

\* the orders in which n files can be read
Orders(n) == { p \in [1..n -> 1..n] : \A i, j \in 1..n : i /= j => p[i] /= p[j] }

\* the files of a sequence in another order
Reordered(files, p) == [k \in 1..Len(files) |-> files[p[k]]]

\* the greatest xdate among the records of a test in the files
GreatestXDate(files, key) ==
    IF files = << >> THEN 0
    ELSE MaxOf({ files[k][key].xdate : k \in 1..Len(files) })

\* the last record of a test that has the greatest xdate
LastGreatest(files, key) ==
    LET hits == { k \in 1..Len(files) :
                    /\ files[k][key] /= NoTest
                    /\ files[k][key].xdate = GreatestXDate(files, key) }
    IN IF hits = {} THEN NoTest
       ELSE files[CHOOSE k \in hits : \A h \in hits : h <= k][key]

StoredDates(tr) == { tr.dataD[k].xdate : k \in TestKeys } \ { 0 }

\* C40: after any sequence of addTestName and mergeRuntimes calls,
\* dateRange() is (min, max) of the positive xdate values of the tests
\* stored, and (None, None) when no stored test has a positive xdate.
C40_DateRangeOfStored ==
    LET stored == StoredDates(results[1])
    IN IF stored = {} THEN dateRange(results[1]) = << >>
       ELSE dateRange(results[1]) =
               << CHOOSE x \in stored : \A y \in stored : x <= y, MaxOf(stored) >>

(* ------------- fmtresults.py: make_attr_string / read_attrs ------------ *)

\* xdate values: a date before the year 2000, which read_attrs reads as
\* -1, and the date of a test run
OldDate == 1
NewDate == 2

\* the attribute dictionaries written: a field is << >> when the key is
\* absent and << value >> when it is present; xdate 0 is a test that has
\* no date yet
AttrFieldValues ==
    [xdate |-> { << >>, << 0 >>, << NewDate >> },
     xtime |-> { << >>, << -1 >>, << 5 >> },
     state |-> { << >>, << "done" >>, << "notrun" >>, << "notdone" >>, << "timeout" >> },
     result |-> { << >>, << "pass" >>, << "fail" >>, << "diff" >>, << "timeout" >> },
     TDD |-> { << >>, << TRUE >> }]

WrittenDicts ==
    [xdate : AttrFieldValues.xdate, xtime : AttrFieldValues.xtime,
     state : AttrFieldValues.state, result : AttrFieldValues.result,
     TDD : AttrFieldValues.TDD]

\* the words of an attribute string: '_'.join( time.ctime(v).split() ),
\* 'xtime=' + str(v), and a plain word
DateWord(v) == [tag |-> "date", num |-> v, word |-> ""]
XtimeWord(v) == [tag |-> "xtime=", num |-> v, word |-> ""]
PlainWord(w) == [tag |-> "word", num |-> 0, word |-> w]

\* make_attr_string( attrD ), as the list of its words
make_attr_string(attrD) ==
    (IF attrD.xdate /= << >> /\ attrD.xdate[1] > 0
     THEN << DateWord(attrD.xdate[1]) >> ELSE << >>)
    \o (IF attrD.xtime /= << >> THEN << XtimeWord(attrD.xtime[1]) >> ELSE << >>)
    \o (IF attrD.state /= << >>
        THEN << PlainWord(attrD.state[1]) >>
             \o (IF attrD.state[1] = "done" /\ attrD.result /= << >>
                 THEN << PlainWord(attrD.result[1]) >> ELSE << >>)
        ELSE << >>)
    \o (IF attrD.TDD /= << >> THEN << PlainWord("TDD") >> ELSE << >>)

\* read_attrs: the word at i is a state read_attrs knows
read_state(attrL, i) ==
    /\ i <= Len(attrL)
    /\ attrL[i].tag = "word"
    /\ attrL[i].word \in { "done", "notrun", "notdone" }

\* read_attrs( attrL ): a date word of a year before 2000 reads as -1
read_attrs(attrL) ==
    LET hasdate == 1 <= Len(attrL) /\ attrL[1].tag = "date"
        i1 == IF hasdate THEN 2 ELSE 1
        hasxtime == i1 <= Len(attrL) /\ attrL[i1].tag = "xtime="
        i2 == IF hasxtime THEN i1 + 1 ELSE i1
        hasstate == read_state(attrL, i2)
        i3 == IF hasstate THEN i2 + 1 ELSE i2
        hasresult == hasstate /\ attrL[i2].word = "done" /\ i3 <= Len(attrL)
        i4 == IF hasresult THEN i3 + 1 ELSE i3
        hastdd == i4 <= Len(attrL) /\ attrL[i4] = PlainWord("TDD")
    IN [xdate |-> IF hasdate
                  THEN IF attrL[1].num = OldDate THEN << -1 >> ELSE << attrL[1].num >>
                  ELSE << >>,
        xtime |-> IF hasxtime THEN << attrL[i1].num >> ELSE << >>,
        state |-> IF hasstate THEN << attrL[i2].word >> ELSE << >>,
        result |-> IF hasresult THEN << attrL[i3].word >> ELSE << >>,
        TDD |-> IF hastdd THEN << TRUE >> ELSE << >>]

InitAttrs ==
    /\ SchedIdle
    /\ ListIdle
    /\ RunnerIdle
    /\ ToolsIdle

AttrsUnchanged ==
    UNCHANGED << schedvars, listvars, runnervars, slurm, results, plat >>

\* a test line is written: attrs = << attrD, attribute string >>
WriteAttrs(attrD) ==
    /\ attrs = << >>
    /\ attrs' = << attrD, make_attr_string(attrD) >>
    /\ AttrsUnchanged

\* the line is read back: the dictionary read is appended
ReadAttrs ==
    /\ Len(attrs) = 2
    /\ attrs' = Append(attrs, read_attrs(attrs[2]))
    /\ AttrsUnchanged

\* the dictionary read is written again: its string is appended
RewriteAttrs ==
    /\ Len(attrs) = 3
    /\ attrs' = Append(attrs, make_attr_string(attrs[3]))
    /\ AttrsUnchanged

NextAttrs ==
    \/ \E attrD \in WrittenDicts : WriteAttrs(attrD)
    \/ ReadAttrs
    \/ RewriteAttrs

SpecAttrs == InitAttrs /\ [][NextAttrs]_vars

\* C33: for every attribute dict whose state and result are values of the
\* status model (states done, notrun, notdone, timeout; results pass,
\* fail, diff, timeout), read_attrs of the words of make_attr_string
\* gives back the same xtime, state, result and TDD, and writing the
\* dictionary read gives the identical attribute string. The dictionaries
\* are those of the status model: a state, and a result exactly when the
\* state is done.
C33_RoundTrip ==
    (/\ Len(attrs) = 4
     /\ attrs[1].state /= << >>
     /\ attrs[1].result /= << >> <=> attrs[1].state = << "done" >>) =>
       /\ attrs[3].xtime = attrs[1].xtime
       /\ attrs[3].state = attrs[1].state
       /\ attrs[3].result = attrs[1].result
       /\ attrs[3].TDD = attrs[1].TDD
       /\ attrs[4] = attrs[2]

(* ------------- makeplatform.py, vvplatform.py: the platform ------------ *)

\* the largest value of -n, -N, --devices, --max-devices, maxprocs and
\* maxdevices
MaxOpt == 2

\* an option that was not given, an attribute that is not set
NoOpt == -1

\* the values of an option or attribute: absent, or a non-negative integer
OptValues == { NoOpt } \cup 0..MaxOpt

\* the ppn values of --platopt and of the plugin's setBatchSystem call
PpnValues == { 1, 2 }

\* rprobe.probe_num_processors( 4 ): the cores found, 4 by default
ProbeValues == { 1, 4 }

\* PlatformConfig.__init__(): no attributes, no batch spec. pc is the
\* step create_Platform_instance has reached, raised the exception that
\* ended it, batchspec << >> stands for None, a pool << total, max >>
PlatformConfig_init ==
    [pc |-> "new", ppn |-> NoOpt, platopt_ppn |-> NoOpt, maxprocs |-> NoOpt,
     maxdevices |-> NoOpt, batchspec |-> << >>, raised |-> "",
     procpool |-> << 1, 1 >>, devicepool |-> << >>]

\* set_platform_options( platcfg, platopts ): the 'ppn' attribute is set
\* when --platopt gives one
set_platform_options(cfg, ppn) ==
    [cfg EXCEPT !.pc = "options",
                !.platopt_ppn = ppn,
                !.ppn = IF ppn /= NoOpt THEN ppn ELSE @]

\* PlatformConfig.setBatchSystem( batch, ppn ): the batch spec is the
\* tuple ( batch, ppn, kwargs ); with no 'ppn' attribute the attribute is
\* set, otherwise the item assignment to the tuple raises TypeError
setBatchSystem(cfg, batch, ppn) ==
    IF ppn <= 0 THEN [cfg EXCEPT !.raised = "AssertionError"]
    ELSE IF cfg.ppn = NoOpt
    THEN [cfg EXCEPT !.batchspec = << batch, ppn >>, !.ppn = ppn]
    ELSE [cfg EXCEPT !.batchspec = << batch, ppn >>, !.raised = "TypeError"]

\* determine_processor_cores( num_procs, max_procs, plugin_max ): << np, mx >>
determine_processor_cores(num_procs, max_procs, plugin_max, probe) ==
    LET mx == IF max_procs = NoOpt
              THEN IF plugin_max = NoOpt THEN probe ELSE plugin_max
              ELSE max_procs
    IN << IF num_procs = NoOpt THEN mx ELSE num_procs, mx >>

\* determine_device_count( num_devices, max_devices, plugin_max ): << nd, mx >>
determine_device_count(num_devices, max_devices, plugin_max) ==
    LET mx == IF max_devices = NoOpt THEN plugin_max ELSE max_devices
    IN IF num_devices = NoOpt THEN << mx, mx >>
       ELSE << num_devices, IF mx = NoOpt THEN num_devices ELSE mx >>

\* Platform.initProcs( num_procs, max_procs, num_devices, max_devices ):
\* the pools are ResourcePool( np, maxnp ) and ResourcePool( nd, maxdev )
initProcs(cfg, num_procs, max_procs, num_devices, max_devices, probe) ==
    LET p == determine_processor_cores(num_procs, max_procs, cfg.maxprocs, probe)
        d == determine_device_count(num_devices, max_devices, cfg.maxdevices)
    IN [cfg EXCEPT !.pc = "procs",
                   !.procpool = p,
                   !.devicepool = IF d[1] /= NoOpt THEN d ELSE << >>]

InitPlatform ==
    /\ SchedIdle
    /\ ListIdle
    /\ RunnerIdle
    /\ slurm = << >>
    /\ results = << >>
    /\ attrs = << >>
    /\ plat = << PlatformConfig_init >>

PlatformUnchanged ==
    UNCHANGED << schedvars, listvars, runnervars, slurm, results, attrs >>

\* create_Platform_instance applies the --platopt options
Platform_set_platform_options(ppn) ==
    /\ plat[1].pc = "new"
    /\ plat' = << set_platform_options(plat[1], ppn) >>
    /\ PlatformUnchanged

\* the platform plugin sets the maxprocs or maxdevices attribute
PlatformConfig_setattr(name, value) ==
    /\ plat[1].pc = "options"
    /\ plat[1].raised = ""
    /\ plat[1][name] = NoOpt
    /\ value /= NoOpt
    /\ plat' = << [plat[1] EXCEPT ![name] = value] >>
    /\ PlatformUnchanged

\* the platform plugin calls setBatchSystem
PlatformConfig_setBatchSystem(ppn) ==
    /\ plat[1].pc = "options"
    /\ plat[1].raised = ""
    /\ plat[1].batchspec = << >>
    /\ plat' = << setBatchSystem(plat[1], "slurm", ppn) >>
    /\ PlatformUnchanged

\* create_Platform_instance makes the Platform and calls initProcs
Platform_initProcs(num_procs, max_procs, num_devices, max_devices, probe) ==
    /\ plat[1].pc = "options"
    /\ plat[1].raised = ""
    /\ plat' = << initProcs(plat[1], num_procs, max_procs, num_devices,
                            max_devices, probe) >>
    /\ PlatformUnchanged

NextPlatform ==
    \/ \E ppn \in PpnValues \cup { NoOpt } : Platform_set_platform_options(ppn)
    \/ \E name \in { "maxprocs", "maxdevices" }, value \in OptValues :
          PlatformConfig_setattr(name, value)
    \/ \E ppn \in PpnValues : PlatformConfig_setBatchSystem(ppn)
    \/ \E num_procs \in OptValues, max_procs \in OptValues,
          num_devices \in OptValues, max_devices \in OptValues,
          probe \in ProbeValues :
          Platform_initProcs(num_procs, max_procs, num_devices, max_devices, probe)

SpecPlatform == InitPlatform /\ [][NextPlatform]_vars

\* a pool made with max_available >= total >= 0
PoolOk(pool) == pool[2] >= pool[1] /\ pool[1] >= 0

\* C34: Platform.initProcs always makes its processor pool and its device
\* pool with max_available >= total >= 0, whatever -n, -N, --devices,
\* --max-devices and the plugin's maxprocs and maxdevices are (each
\* absent or a non-negative integer).
C34_PoolsWellFormed ==
    plat[1].pc = "procs" =>
       /\ PoolOk(plat[1].procpool)
       /\ plat[1].devicepool /= << >> => PoolOk(plat[1].devicepool)

\* C38: when ppn was given through --platopt and the plugin then calls
\* setBatchSystem( type, ppn2 ), the call succeeds and the batch spec
\* carries the --platopt value; when no ppn was given, the 'ppn'
\* attribute is set to ppn2.
C38_PlatoptPpnWins ==
    plat[1].batchspec /= << >> =>
       /\ plat[1].raised = ""
       /\ IF plat[1].platopt_ppn /= NoOpt
          THEN plat[1].batchspec[2] = plat[1].platopt_ppn
          ELSE plat[1].ppn = plat[1].batchspec[2]

(* --------------- execlist.py: TestBacklog, call by call ---------------- *)

\* (np, runtime) of the tests handed to a TestBacklog
BacklogProfiles == { <<4, 10>>, <<2, 10>>, <<0, 5>> }

\* constraint.getMaxNP() of the constraints given to pop
BacklogMaxNP == { 0, 1, 2 }

\* a TestBacklog() over tests of every mix of sizes, the second blocked by
\* the first or not: nothing inserted, nothing sorted
InitBacklog ==
    InitWith(BacklogProfiles, { {} }, { d \in DepChoices : d[1] = {} })

BacklogUnchanged ==
    UNCHANGED << runnervars, toolvars, listvars, xtlist, tlist, deps, status,
                 created, waiting, started, stopped, remaining, inuse, resobj >>

\* TestBacklog.insert( tcase ): self.tests.append( tcase )
TestBacklog_insert(t) ==
    /\ \A i \in 1..Len(backlog) : backlog[i] /= t
    /\ backlog' = Append(backlog, t)
    /\ ret' = [op |-> "insert", arg |-> t, val |-> None]
    /\ BacklogUnchanged

\* TestBacklog.sort()
TestBacklog_sort ==
    /\ backlog' = sort(backlog)
    /\ ret' = [op |-> "sort", arg |-> None, val |-> None]
    /\ BacklogUnchanged

\* TestBacklog.pop( constraint ) with constraint.getMaxNP() = maxnp
TestBacklog_pop(maxnp) ==
    /\ LET r == pop(backlog, TRUE, SizeConstraint(maxnp))
       IN /\ backlog' = r.tests
          /\ ret' = [op |-> "pop", arg |-> maxnp, val |-> r.tcase]
    /\ BacklogUnchanged

NextBacklog ==
    \/ \E t \in TestIds : TestBacklog_insert(t)
    \/ TestBacklog_sort
    \/ \E maxnp \in BacklogMaxNP : TestBacklog_pop(maxnp)

SpecBacklog == InitBacklog /\ [][NextBacklog]_vars

\* the test a linear scan from index 0 with constraint.apply returns
LinearScan(tests, maxnp) ==
    LET idx == pop_scan(tests, TRUE, SizeConstraint(maxnp), 0)
    IN IF idx < Len(tests) THEN tests[idx + 1] ELSE None

\* the list is in descending np order, as sort() leaves it
DescendingNP(tests) ==
    \A i \in 1..Len(tests) : \A j \in i..Len(tests) : NP(tests[i]) >= NP(tests[j])

\* C35 as stated: after any sequence of insert, sort and pop calls,
\* pop( constraint ) with maxnp = m returns the test a linear scan from
\* index 0 applying constraint.apply returns.
C35_Original ==
    [][ret'.op = "pop" => ret'.val = LinearScan(backlog, ret'.arg)]_vars

\* C35 amended: when the list is in descending np order (sort() was called
\* after the last insert, as TestExecList does), pop( constraint ) returns
\* the test a linear scan from index 0 returns.
C35_Amended ==
    [][(ret'.op = "pop" /\ DescendingNP(backlog))
          => ret'.val = LinearScan(backlog, ret'.arg)]_vars

\* a pop on a sorted list whose binary search skipped an entry and which
\* returned a test
C35_Witness ==
    /\ ret.op = "pop"
    /\ ret.val /= None
    /\ DescendingNP(backlog)
    /\ \E i \in 1..Len(backlog) : NP(backlog[i]) > ret.arg

(* ------------------ runjob.py: the result of a job --------------------- *)

\* C36: a job that entered state run and reached state done carries an
\* 'exit' attribute or an 'exc' attribute: execute() clears 'exit' at its
\* start and sets it again before it returns, for local jobs and for
\* remote jobs, a remote monitor timeout included.
C36_DoneHasExitOrExc ==
    \A j \in 1..Len(jobs) :
       (jobs[j].state = "done" /\ jobs[j].thread = "dead") =>
          Job_has(jobs[j], "exit") \/ Job_has(jobs[j], "exc")

(* --------------- runjob.py: an unknown waitforjobid -------------------- *)

\* job j was submitted with a waitforjobid that is not a key of jobdb
WaitsForUnknown(J, j) == Job_get(J[j], "waitforjobid", << >>) = UnknownId

\* C37: submit_job with a waitforjobid that is not a key of jobdb makes a
\* job that stays in state setup with 'exc' set, is stored in jobdb, is
\* never placed in waiting and is never launched; poll_job on its id
\* returns True.
C37_UnknownWaitFails ==
    /\ [](\A j \in 1..Len(jobs) :
            WaitsForUnknown(jobs, j) =>
               /\ jobs[j].state = "setup"
               /\ Job_has(jobs[j], "exc")
               /\ Job_jobid(jobs[j]) \in DictKeys(jobdb)
               /\ DictGet(jobdb, Job_jobid(jobs[j]))[2] = j
               /\ \A k \in 1..Len(jobwaiting) : jobwaiting[k][2] /= j
               /\ jobs[j].thread = "none"
               /\ jobs[j].runthread = None)
    /\ [][\A j \in 1..Len(jobs) :
             (/\ WaitsForUnknown(jobs, j)
              /\ ret' /= ret
              /\ ret'.op = "isDone"
              /\ ret'.arg = Job_jobid(jobs[j])) => ret'.val = TRUE]_vars

\* poll_job was called on a job submitted with an unknown waitforjobid,
\* while another job runs
C37_Witness ==
    /\ ret.op = "isDone"
    /\ \E j, k \in 1..Len(jobs) :
          /\ WaitsForUnknown(jobs, j)
          /\ ret.arg = Job_jobid(jobs[j])
          /\ jobs[k].state = "run"

(* ---------------- TestList.py: the restart (runtime) filter ------------ *)

\* the skip reasons of apply_runtime_filters
SUBDIR_SKIP == "subdir"
RESULTS_KEYWORD_SKIP == "results keyword expression"
RESTART_PARAM_SKIP == "restart parameter expression failed"
FILTER_SKIP == "filter"
BASELINE_SKIP == "no baseline handling"

\* what one call of determineActiveTests meets: test i (none when 0, else
\* the first or the last test of the map) is outside filter_dir, or fails the results keyword expression, or the
\* call is a baseline run and test i has no baseline handling
RestartInputs(specs) ==
    { [test |-> i, why |-> w] :
        i \in { 0, 1, Len(specs) }, w \in { "subdir", "keyword", "baseline" } }

\* mutation of runtime_check: the test "if not statushandler.skipTest" is
\* missing, every test is checked
runtime_check_all(sk, specs, cfg, inp, i) ==
    IF ~cfg.include_all /\ inp.test = i /\ inp.why = "subdir"
    THEN [reason |-> SUBDIR_SKIP, checked |-> TRUE]
    ELSE IF ~cfg.include_all /\ inp.test = i /\ inp.why = "keyword"
    THEN [reason |-> RESULTS_KEYWORD_SKIP, checked |-> TRUE]
    ELSE IF ~cfg.include_all /\ ~checkParameters(specs[i])
    THEN [reason |-> RESTART_PARAM_SKIP, checked |-> TRUE]
    ELSE IF ~cfg.include_all /\ ~(specs[i].enabled /\ checkRuntime(cfg, specs[i]))
    THEN [reason |-> FILTER_SKIP, checked |-> TRUE]
    ELSE IF inp.why = "baseline" /\ inp.test = i
    THEN [reason |-> BASELINE_SKIP, checked |-> TRUE]
    ELSE [reason |-> sk[i], checked |-> TRUE]

\* the body of the loop of apply_runtime_filters for test i: the skip
\* mark the test has after it, and whether its predicates were evaluated.
\* The tests of a scanned map are completely constructed, none is
\* refreshed
runtime_check(sk, specs, cfg, inp, i) ==
    IF statushandler_skipTest(sk, i)
    THEN [reason |-> sk[i], checked |-> FALSE]
    ELSE IF ~cfg.include_all /\ inp.test = i /\ inp.why = "subdir"
    THEN [reason |-> SUBDIR_SKIP, checked |-> TRUE]
    ELSE IF ~cfg.include_all /\ inp.test = i /\ inp.why = "keyword"
    THEN [reason |-> RESULTS_KEYWORD_SKIP, checked |-> TRUE]
    ELSE IF ~cfg.include_all /\ ~checkParameters(specs[i])
    THEN [reason |-> RESTART_PARAM_SKIP, checked |-> TRUE]
    ELSE IF ~cfg.include_all /\ ~(specs[i].enabled /\ checkRuntime(cfg, specs[i]))
    THEN [reason |-> FILTER_SKIP, checked |-> TRUE]
    ELSE IF inp.why = "baseline" /\ inp.test = i
    THEN [reason |-> BASELINE_SKIP, checked |-> TRUE]
    ELSE [reason |-> sk[i], checked |-> TRUE]

\* the loop of apply_runtime_filters over tspec_map.items()
runtime_checks(sk, specs, cfg, inp) ==
    [i \in Idx(specs) |-> runtime_check(sk, specs, cfg, inp, i).reason]

\* the tests whose predicates the loop evaluates
runtime_checked(sk, specs, cfg, inp) ==
    { i \in Idx(specs) : runtime_check(sk, specs, cfg, inp, i).checked }

\* apply_runtime_filters( statushandler, tspec_map, rtconfig, subdir,
\* analyze_only, baseline ): [skip, pset, raised] after the call
apply_runtime_filters(sk, ps, specs, cfg, inp) ==
    LET sk1 == runtime_checks(sk, specs, cfg, inp)
        sk2 == IF ~cfg.include_all /\ cfg.runtime_sum /= NoLimit
               THEN filter_by_cummulative_runtime(sk1, specs, cfg.runtime_sum)
               ELSE sk1
        st == [skip |-> sk2, pset |-> ps, raised |-> ""]
    IN IF inp.why /= "baseline"
       THEN filter_analyze_tests(st, specs, rebuild(specs, sk2))
       ELSE st

\* TestList.determineActiveTests: the runtime filters are applied, the
\* groups rebuilt and the active tests counted
TestList_determineActiveTests(inp) ==
    /\ raised = ""
    /\ tspecs /= << >>
    /\ ~created
    /\ LET r == apply_runtime_filters(skip, pset, tspecs, rtconfig, inp)
       IN /\ skip' = r.skip
          /\ pset' = r.pset
          /\ raised' = r.raised
          /\ groupmap' = IF r.raised = "" THEN rebuild(tspecs, r.skip)
                         ELSE groupmap
          /\ numactive' = IF r.raised = "" THEN count_active(r.skip, tspecs)
                          ELSE numactive
    /\ UNCHANGED << runnervars, toolvars, schedvars, tspecs, rtconfig, passes,
                    tdeps, depdirs, has_dependent, addlog >>

\* the test maps of one test file with runtimes doubling from 10 s: every
\* mix of check answers, with or without an analyze test
RestartUniverses ==
    { [v \in 1..NumParams |-> ParamTest(v, Doubled(v), dp[v][1], dp[v][2])] \o an :
        dp \in [1..NumParams -> Dispositions],
        an \in { << >>, << AnalyzeTest(NoRuntime, TRUE) >> } }

\* the run's configuration: no cutoff, a cutoff of 25 s, or include_all
RestartConfigs ==
    { [include_all |-> FALSE, runtime_sum |-> rs, runtime_max |-> NoLimit] :
        rs \in { NoLimit, 25 } }
    \cup { [include_all |-> TRUE, runtime_sum |-> 25, runtime_max |-> NoLimit] }

\* a scanned test map: nothing is skipped, no groups are built yet
InitRestart ==
    /\ SchedIdle
    /\ RunnerIdle
    /\ ToolsIdle
    /\ tspecs \in RestartUniverses
    /\ skip = [i \in Idx(tspecs) |-> ""]
    /\ groupmap = << >>
    /\ rtconfig \in RestartConfigs
    /\ pset = [i \in Idx(tspecs) |-> ParsedParameterSet(tspecs[i])]
    /\ raised = ""
    /\ passes = 0
    /\ numactive = 0
    /\ tdeps = [i \in Idx(tspecs) |-> << >>]
    /\ depdirs = [i \in Idx(tspecs) |-> {}]
    /\ has_dependent = [i \in Idx(tspecs) |-> FALSE]
    /\ addlog = << >>

NextRestart ==
    \/ TestList_applyPermanentFilters
    \/ \E inp \in RestartInputs(tspecs) : TestList_determineActiveTests(inp)

SpecRestart == InitRestart /\ [][NextRestart]_vars

\* the tests marked as skipped
Skipped(sk) == { i \in DOMAIN sk : statushandler_skipTest(sk, i) }

\* C39: no filter pass clears a skip mark: across any sequence of
\* applyPermanentFilters and determineActiveTests calls the set of
\* skipped tests only grows, and the restart filter evaluates its
\* predicates only on tests that are not skipped already.
C39_SkipMarksOnlyGrow ==
    /\ [][Skipped(skip) \subseteq Skipped(skip')]_vars
    /\ [](\A inp \in RestartInputs(tspecs) :
            runtime_checked(skip, tspecs, rtconfig, inp) \cap Skipped(skip) = {})

\* the restart filter has skipped a test next to one the permanent filter
\* had skipped, and left a third test active
C39_Witness ==
    /\ passes >= 1
    /\ \E i, j, k \in Idx(tspecs) :
          /\ skip[i] \in { PARAM_SKIP, FILTERED_OUT }
          /\ skip[j] \in { SUBDIR_SKIP, RESULTS_KEYWORD_SKIP, BASELINE_SKIP }
          /\ skip[k] = ""

=============================================================================
